---- MODULE Spec2Model ----
(***************************************************************************)
(* A model of the biorhythm engine of src/biorythm.py: the calculator's    *)
(* configuration, the critical-day detector, the chart position mapper,    *)
(* the date validator, the chart renderers, the time-series exporter and   *)
(* the two entry points (main of src/biorythm.py, main of src/main.py).    *)
(*                                                                         *)
(* Numbers.  A Python float in [-1, 1] is a fixed-point integer counted in *)
(* units of 1/SCALE (SCALE = 1000), so 0.05 is 50 and 1.0 is 1000.         *)
(* Dates.  A datetime is [ord, tick]: the proleptic Gregorian ordinal of   *)
(* its calendar day (datetime.toordinal) and its time of day counted in    *)
(* ticks, TicksPerDay ticks to a day.  Birth dates are midnights, as       *)
(* DateValidator and datetime(y, m, d) produce them; plot dates and the    *)
(* wall clock carry a time of day.                                         *)
(* Python values whose type matters (arguments that may have the wrong     *)
(* type, the exported payload) are tagged records [t |-> type, v |-> ...]. *)
(* A Python str the program computes or inspects (a formatted date, an     *)
(* orientation) is a sequence of one-character strings; a literal it only  *)
(* passes on is a TLA+ string.                                             *)
(* The caller is sequential: it makes one call, looks at the outcome kept  *)
(* in `last`, releases it, and makes the next call.  A caller that keeps   *)
(* notes writes the first export it made with a plot date of its own into  *)
(* `noted`, to compare later exports with it.                              *)
(***************************************************************************)
EXTENDS Integers, Sequences, FiniteSets, TLC

VARIABLES now, calc, last, noted

vars == <<now, calc, last, noted>>

(***************************************************************************)
(* Program constants (src/biorythm.py:78-86)                               *)
(***************************************************************************)
PHYSICAL_CYCLE_DAYS == 23
EMOTIONAL_CYCLE_DAYS == 28
INTELLECTUAL_CYCLE_DAYS == 33
MIN_CHART_WIDTH == 12
DEFAULT_CHART_WIDTH == 55
DEFAULT_DAYS_TO_PLOT == 29
MIN_YEAR == 1
MAX_YEAR == 9999
\* 0.05, in units of 1/SCALE
CRITICAL_DAY_THRESHOLD == 50
\* one float unit: 0.05 = 1/20, so 1.0 = 20 * 0.05
SCALE == 20 * CRITICAL_DAY_THRESHOLD

(***************************************************************************)
(* Bounds of the model                                                     *)
(***************************************************************************)
\* the widest chart requested
MaxWidth == 13
\* the longest window requested
MaxDays == 3
\* the resolution of the time of day
TicksPerDay == 2
\* how many ticks the wall clock advances
MaxClockTicks == 2

(***************************************************************************)
(* Python values                                                           *)
(***************************************************************************)
PyNone == [t |-> "NoneType", v |-> "None"]
PyInt(n) == [t |-> "int", v |-> n]
PyFloat(x) == [t |-> "float", v |-> x]
PyStr(s) == [t |-> "str", v |-> s]
PyList(s) == [t |-> "list", v |-> s]
PyDict(r) == [t |-> "dict", v |-> r]
\* a datetime argument
PyDatetime(d) == [t |-> "datetime", v |-> d]

\* x is None
IsNone(x) == x.t = "NoneType"
\* isinstance(x, int)
IsInstanceInt(x) == x.t = "int"
\* isinstance(x, str)
IsInstanceStr(x) == x.t = "str"

Max(a, b) == IF a >= b THEN a ELSE b
Abs(x) == IF x < 0 THEN -x ELSE x

(***************************************************************************)
(* Strings: str.lower, digits                                              *)
(***************************************************************************)
UpperLetters == <<"A","B","C","D","E","F","G","H","I","J","K","L","M",
                  "N","O","P","Q","R","S","T","U","V","W","X","Y","Z">>
LowerLetters == <<"a","b","c","d","e","f","g","h","i","j","k","l","m",
                  "n","o","p","q","r","s","t","u","v","w","x","y","z">>

LowerChar(c) ==
    IF \E k \in DOMAIN UpperLetters : UpperLetters[k] = c
    THEN LowerLetters[CHOOSE k \in DOMAIN UpperLetters : UpperLetters[k] = c]
    ELSE c

\* str.lower()
Lower(s) == [k \in DOMAIN s |-> LowerChar(s[k])]

sVertical == <<"v","e","r","t","i","c","a","l">>
sHorizontal == <<"h","o","r","i","z","o","n","t","a","l">>

Digits == <<"0","1","2","3","4","5","6","7","8","9">>
DigitChar(d) == Digits[d + 1]
IsDigit(c) == \E k \in DOMAIN Digits : Digits[k] = c
DigitValue(c) == (CHOOSE k \in DOMAIN Digits : Digits[k] = c) - 1

RECURSIVE NatToChars(_)
\* the decimal digits of a natural number, no padding
NatToChars(n) ==
    IF n < 10 THEN <<DigitChar(n)>>
    ELSE NatToChars(n \div 10) \o <<DigitChar(n % 10)>>

RECURSIVE PadZero(_, _)
\* zero-padding to a width, as the %02d / %Y / %m / %d conversions do
PadZero(s, w) == IF Len(s) >= w THEN s ELSE PadZero(<<"0">> \o s, w)

RECURSIVE CharsToNat(_)
\* the natural number a digit string denotes
CharsToNat(s) ==
    IF Len(s) = 0 THEN 0
    ELSE 10 * CharsToNat(SubSeq(s, 1, Len(s) - 1)) + DigitValue(s[Len(s)])

(***************************************************************************)
(* The calendar of datetime: proleptic Gregorian ordinals                  *)
(***************************************************************************)
DaysInMonthTable == <<31, 28, 31, 30, 31, 30, 31, 31, 30, 31, 30, 31>>
DaysBeforeMonthTable == <<0, 31, 59, 90, 120, 151, 181, 212, 243, 273, 304, 334>>

IsLeap(y) == y % 4 = 0 /\ (y % 100 # 0 \/ y % 400 = 0)

DaysBeforeYear(y) ==
    (y - 1) * 365 + ((y - 1) \div 4) - ((y - 1) \div 100) + ((y - 1) \div 400)

DaysInMonth(y, m) == IF m = 2 /\ IsLeap(y) THEN 29 ELSE DaysInMonthTable[m]

DaysBeforeMonth(y, m) ==
    DaysBeforeMonthTable[m] + (IF m > 2 /\ IsLeap(y) THEN 1 ELSE 0)

\* datetime(y, m, d).toordinal()
YmdToOrd(y, m, d) == DaysBeforeYear(y) + DaysBeforeMonth(y, m) + d

MaxOrdinal == YmdToOrd(MAX_YEAR, 12, 31)

\* the year of an ordinal: the 400/100/4/1-year cycle decomposition
OrdYear(n) ==
    LET n0 == n - 1
        n400 == n0 \div 146097
        r400 == n0 % 146097
        n100 == r400 \div 36524
        r100 == r400 % 36524
        n4 == r100 \div 1461
        r4 == r100 % 1461
        n1 == r4 \div 365
        y == n400 * 400 + n100 * 100 + n4 * 4 + n1 + 1
    IN IF n1 = 4 \/ n100 = 4 THEN y - 1 ELSE y

\* datetime.fromordinal(n) as <<year, month, day>>
OrdToYmd(n) ==
    LET y == OrdYear(n)
        doy == n - DaysBeforeYear(y)
        m == CHOOSE mm \in 1..12 :
                 /\ DaysBeforeMonth(y, mm) < doy
                 /\ doy <= DaysBeforeMonth(y, mm) + DaysInMonth(y, mm)
    IN <<y, m, doy - DaysBeforeMonth(y, m)>>

\* datetime(y, m, d): midnight of a calendar day
Midnight(y, m, d) == [ord |-> YmdToOrd(y, m, d), tick |-> 0]

\* (a - b).days: timedelta normalises to 0 <= seconds, so days is the floor
TimedeltaDays(a, b) ==
    ((a.ord - b.ord) * TicksPerDay + (a.tick - b.tick)) \div TicksPerDay

\* a + timedelta(days=k) is representable (else OverflowError)
InDateRange(a, k) == a.ord + k >= 1 /\ a.ord + k <= MaxOrdinal

\* a + timedelta(days=k)
PlusDays(a, k) == [ord |-> a.ord + k, tick |-> a.tick]

\* a variant of DatetimeAfter that is not strict
DatetimeNotBefore(a, b) == a.ord > b.ord \/ (a.ord = b.ord /\ a.tick >= b.tick)

\* a > b on naive datetimes
DatetimeAfter(a, b) == a.ord > b.ord \/ (a.ord = b.ord /\ a.tick > b.tick)

\* d.strftime("%Y-%m-%d")
StrftimeYmd(d) ==
    LET ymd == OrdToYmd(d.ord)
    IN PadZero(NatToChars(ymd[1]), 4) \o <<"-">> \o PadZero(NatToChars(ymd[2]), 2)
           \o <<"-">> \o PadZero(NatToChars(ymd[3]), 2)

(***************************************************************************)
(* BiorhythmCalculator.__init__ (src/biorythm.py:100-130)                  *)
(***************************************************************************)
NoCalc == [logger |-> "none"]

\* a variant of ValidateChartParameters that lets days = 0 through
ValidateChartParametersDaysZero(width, days) ==
    IF ~IsInstanceInt(width) \/ width.v < 1 THEN "ChartParameterError"
    ELSE IF ~IsInstanceInt(days) \/ days.v < 0 THEN "ChartParameterError"
    ELSE "none"

\* _validate_chart_parameters: the error it raises, or "none"
ValidateChartParameters(width, days) ==
    IF ~IsInstanceInt(width) \/ width.v < 1 THEN "ChartParameterError"
    ELSE IF ~IsInstanceInt(days) \/ days.v < 1 THEN "ChartParameterError"
    ELSE "none"

\* _validate_orientation: the error it raises, or "none"
ValidateOrientation(orientation) ==
    IF ~IsInstanceStr(orientation)
           \/ Lower(orientation.v) \notin {sVertical, sHorizontal}
    THEN "ChartParameterError"
    ELSE "none"

\* a variant of ConfigFields that halves the requested width, not the clamped one
ConfigFieldsUnclampedMid(width, days, orientation) ==
    [width |-> Max(width.v, MIN_CHART_WIDTH),
     days |-> days.v,
     orientation |-> Lower(orientation.v),
     midwidth |-> width.v \div 2,
     middays |-> days.v \div 2]

\* the attributes assigned once validation passed (lines 109-113)
ConfigFields(width, days, orientation) ==
    LET w == Max(width.v, MIN_CHART_WIDTH)
    IN [width |-> w,
        days |-> days.v,
        orientation |-> Lower(orientation.v),
        midwidth |-> w \div 2,
        middays |-> days.v \div 2]

\* __init__: the error raised ("none" on success) and the attributes of self
\* assigned by the time the constructor is left
CalculatorInit(width, days, orientation) ==
    LET self0 == [logger |-> "logger"]
        e1 == ValidateChartParameters(width, days)
        e2 == ValidateOrientation(orientation)
    IN IF e1 # "none" THEN [exc |-> e1, self |-> self0]
       ELSE IF e2 # "none" THEN [exc |-> e2, self |-> self0]
       ELSE [exc |-> "none",
             self |-> self0 @@ ConfigFields(width, days, orientation)]

(***************************************************************************)
(* BiorhythmCalculator.is_critical_day (src/biorythm.py:132-142)           *)
(***************************************************************************)
\* list.append
Append1(s, cond, name) == IF cond THEN Append(s, name) ELSE s

\* a variant of IsCriticalDay with an exclusive boundary
IsCriticalDayStrict(physical, emotional, intellectual) ==
    LET c1 == Append1(<<>>, Abs(physical) < CRITICAL_DAY_THRESHOLD, "Physical")
        c2 == Append1(c1, Abs(emotional) < CRITICAL_DAY_THRESHOLD, "Emotional")
        c3 == Append1(c2, Abs(intellectual) < CRITICAL_DAY_THRESHOLD, "Intellectual")
    IN [is_critical |-> Len(c3) > 0, critical_cycles |-> c3]

IsCriticalDay(physical, emotional, intellectual) ==
    LET c0 == <<>>
        c1 == Append1(c0, Abs(physical) <= CRITICAL_DAY_THRESHOLD, "Physical")
        c2 == Append1(c1, Abs(emotional) <= CRITICAL_DAY_THRESHOLD, "Emotional")
        c3 == Append1(c2, Abs(intellectual) <= CRITICAL_DAY_THRESHOLD, "Intellectual")
    IN [is_critical |-> Len(c3) > 0, critical_cycles |-> c3]

(***************************************************************************)
(* BiorhythmCalculator._calculate_chart_positions (src/biorythm.py:154-160)*)
(***************************************************************************)
\* a variant of ChartPosition that scales by midwidth, leaving no margin
ChartPositionNoMargin(value, midwidth) == ((value * midwidth) \div SCALE) + midwidth

\* math.floor(value * (midwidth - 1)) + midwidth, value in units of 1/SCALE
ChartPosition(value, midwidth) == ((value * (midwidth - 1)) \div SCALE) + midwidth

CalculateChartPositions(self, physical, emotional, intellectual) ==
    <<ChartPosition(physical, self.midwidth),
      ChartPosition(emotional, self.midwidth),
      ChartPosition(intellectual, self.midwidth)>>

(***************************************************************************)
(* BiorhythmCalculator._create_chart_line (src/biorythm.py:162-186)        *)
(***************************************************************************)
\* chart_line[pos] on a list of `width` items is an IndexError outside
\* -width..width-1
IndexOk(pos, width) == pos >= -width /\ pos <= width - 1

\* the 1-based place of chart_line[pos]; a negative index counts from the end
ListIndex(pos, width) == IF pos >= 0 THEN pos + 1 ELSE width + pos + 1

\* chart_line[pos] = c
SetItem(line, pos, c) == [line EXCEPT ![ListIndex(pos, Len(line))] = c]

\* a variant of CreateChartLine where a critical day takes the '.' background
\* also on the plot date
CreateChartLineCriticalFirst(self, p_pos, e_pos, i_pos, is_plot_date, is_critical) ==
    LET space_char == IF is_critical THEN "." ELSE (IF is_plot_date THEN "-" ELSE " ")
        l0 == [k \in 1..self.width |-> space_char]
        l1 == SetItem(l0, self.midwidth, ":")
        overlap == IF is_critical THEN "!" ELSE "*"
        l2 == SetItem(l1, p_pos, IF is_critical THEN "P" ELSE "p")
        l3 == SetItem(l2, e_pos, IF is_critical THEN "E" ELSE "e")
        l4 == SetItem(l3, i_pos, IF is_critical THEN "I" ELSE "i")
        l5 == IF p_pos = e_pos THEN SetItem(l4, p_pos, overlap) ELSE l4
        l6 == IF e_pos = i_pos THEN SetItem(l5, e_pos, overlap) ELSE l5
        l7 == IF i_pos = p_pos THEN SetItem(l6, i_pos, overlap) ELSE l6
    IN IF \A pos \in {p_pos, e_pos, i_pos} : IndexOk(pos, self.width)
       THEN [exc |-> "none", line |-> l7]
       ELSE [exc |-> "IndexError", line |-> <<>>]

\* a variant of CreateChartLine that keeps the letters of the plot-date line
\* in lower case
CreateChartLinePlotLower(self, p_pos, e_pos, i_pos, is_plot_date, is_critical) ==
    LET space_char == IF is_plot_date THEN "-" ELSE (IF is_critical THEN "." ELSE " ")
        upper == is_critical /\ ~is_plot_date
        l0 == [k \in 1..self.width |-> space_char]
        l1 == SetItem(l0, self.midwidth, ":")
        overlap == IF is_critical THEN "!" ELSE "*"
        l2 == SetItem(l1, p_pos, IF upper THEN "P" ELSE "p")
        l3 == SetItem(l2, e_pos, IF upper THEN "E" ELSE "e")
        l4 == SetItem(l3, i_pos, IF upper THEN "I" ELSE "i")
        l5 == IF p_pos = e_pos THEN SetItem(l4, p_pos, overlap) ELSE l4
        l6 == IF e_pos = i_pos THEN SetItem(l5, e_pos, overlap) ELSE l5
        l7 == IF i_pos = p_pos THEN SetItem(l6, i_pos, overlap) ELSE l6
    IN IF \A pos \in {p_pos, e_pos, i_pos} : IndexOk(pos, self.width)
       THEN [exc |-> "none", line |-> l7]
       ELSE [exc |-> "IndexError", line |-> <<>>]

\* a variant of CreateChartLine without the last overlap check (i_pos == p_pos)
CreateChartLineTwoChecks(self, p_pos, e_pos, i_pos, is_plot_date, is_critical) ==
    LET space_char == IF is_plot_date THEN "-" ELSE (IF is_critical THEN "." ELSE " ")
        l0 == [k \in 1..self.width |-> space_char]
        l1 == SetItem(l0, self.midwidth, ":")
        overlap == IF is_critical THEN "!" ELSE "*"
        l2 == SetItem(l1, p_pos, IF is_critical THEN "P" ELSE "p")
        l3 == SetItem(l2, e_pos, IF is_critical THEN "E" ELSE "e")
        l4 == SetItem(l3, i_pos, IF is_critical THEN "I" ELSE "i")
        l5 == IF p_pos = e_pos THEN SetItem(l4, p_pos, overlap) ELSE l4
        l6 == IF e_pos = i_pos THEN SetItem(l5, e_pos, overlap) ELSE l5
    IN IF \A pos \in {p_pos, e_pos, i_pos} : IndexOk(pos, self.width)
       THEN [exc |-> "none", line |-> l6]
       ELSE [exc |-> "IndexError", line |-> <<>>]

CreateChartLine(self, p_pos, e_pos, i_pos, is_plot_date, is_critical) ==
    LET space_char == IF is_plot_date THEN "-" ELSE (IF is_critical THEN "." ELSE " ")
        l0 == [k \in 1..self.width |-> space_char]
        l1 == SetItem(l0, self.midwidth, ":")
        marker_p == IF is_critical THEN "P" ELSE "p"
        marker_e == IF is_critical THEN "E" ELSE "e"
        marker_i == IF is_critical THEN "I" ELSE "i"
        overlap == IF is_critical THEN "!" ELSE "*"
        l2 == SetItem(l1, p_pos, marker_p)
        l3 == SetItem(l2, e_pos, marker_e)
        l4 == SetItem(l3, i_pos, marker_i)
        l5 == IF p_pos = e_pos THEN SetItem(l4, p_pos, overlap) ELSE l4
        l6 == IF e_pos = i_pos THEN SetItem(l5, e_pos, overlap) ELSE l5
        l7 == IF i_pos = p_pos THEN SetItem(l6, i_pos, overlap) ELSE l6
    IN IF \A pos \in {p_pos, e_pos, i_pos} : IndexOk(pos, self.width)
       THEN [exc |-> "none", line |-> l7]
       ELSE [exc |-> "IndexError", line |-> <<>>]

(***************************************************************************)
(* DateValidator (src/biorythm.py:484-507)                                 *)
(***************************************************************************)
\* validate_date_components: the error it raises, or "none"
ValidateDateComponents(year, month, day) ==
    IF ~IsInstanceInt(year) \/ ~(MIN_YEAR <= year.v /\ year.v <= MAX_YEAR)
    THEN "DateValidationError"
    ELSE IF ~IsInstanceInt(month) \/ ~(1 <= month.v /\ month.v <= 12)
    THEN "DateValidationError"
    ELSE IF ~IsInstanceInt(day) \/ ~(1 <= day.v /\ day.v <= 31)
    THEN "DateValidationError"
    ELSE "none"

\* datetime(year, month, day) raises ValueError for a day the month lacks
DatetimeValueError(year, month, day) == day > DaysInMonth(year, month)

\* create_validated_date at wall-clock time `clock`
CreateValidatedDate(year, month, day, clock) ==
    LET e == ValidateDateComponents(year, month, day)
    IN IF e # "none" THEN [exc |-> e]
       ELSE IF DatetimeValueError(year.v, month.v, day.v)
       THEN [exc |-> "DateValidationError"]
       ELSE IF DatetimeAfter(Midnight(year.v, month.v, day.v), clock)
       THEN [exc |-> "DateValidationError"]
       ELSE [exc |-> "none", date |-> Midnight(year.v, month.v, day.v)]

(***************************************************************************)
(* BiorhythmCalculator.calculate_biorhythm_values (src/biorythm.py:144-152)*)
(***************************************************************************)
\* round(SCALE * sin(2 pi k / P)) for k = 0 .. P-1
SinTable23 ==
    <<0, 270, 520, 731, 888, 979, 998, 942, 817, 631, 398, 136, -136, -398, -631,
      -817, -942, -998, -979, -888, -731, -520, -270>>
SinTable28 ==
    <<0, 223, 434, 623, 782, 901, 975, 1000, 975, 901, 782, 623, 434, 223, 0, -223,
      -434, -623, -782, -901, -975, -1000, -975, -901, -782, -623, -434, -223>>
SinTable33 ==
    <<0, 189, 372, 541, 690, 815, 910, 972, 999, 990, 945, 866, 756, 618, 458, 282,
      95, -95, -282, -458, -618, -756, -866, -945, -990, -999, -972, -910, -815,
      -690, -541, -372, -189>>

\* a variant of SinCycle that counts the days from birth without their sign
SinCycleAbs(days_alive, period) ==
    CASE period = PHYSICAL_CYCLE_DAYS -> SinTable23[(Abs(days_alive) % period) + 1]
      [] period = EMOTIONAL_CYCLE_DAYS -> SinTable28[(Abs(days_alive) % period) + 1]
      [] period = INTELLECTUAL_CYCLE_DAYS -> SinTable33[(Abs(days_alive) % period) + 1]

\* a variant of SinCycle that counts the day of birth as day one
SinCycleDayOne(days_alive, period) ==
    CASE period = PHYSICAL_CYCLE_DAYS -> SinTable23[((days_alive + 1) % period) + 1]
      [] period = EMOTIONAL_CYCLE_DAYS -> SinTable28[((days_alive + 1) % period) + 1]
      [] period = INTELLECTUAL_CYCLE_DAYS -> SinTable33[((days_alive + 1) % period) + 1]

\* math.sin((2 * math.pi * days_alive) / period), in units of 1/SCALE
SinCycle(days_alive, period) ==
    CASE period = PHYSICAL_CYCLE_DAYS -> SinTable23[(days_alive % period) + 1]
      [] period = EMOTIONAL_CYCLE_DAYS -> SinTable28[(days_alive % period) + 1]
      [] period = INTELLECTUAL_CYCLE_DAYS -> SinTable33[(days_alive % period) + 1]

\* a variant of CalculateBiorhythmValues that returns percentages, as the
\* chart footer shows them
CalculateBiorhythmValuesPercent(birthdate, target_date) ==
    LET days_alive == TimedeltaDays(target_date, birthdate)
    IN [physical |-> SinCycle(days_alive, PHYSICAL_CYCLE_DAYS) * 100,
        emotional |-> SinCycle(days_alive, EMOTIONAL_CYCLE_DAYS) * 100,
        intellectual |-> SinCycle(days_alive, INTELLECTUAL_CYCLE_DAYS) * 100]

CalculateBiorhythmValues(birthdate, target_date) ==
    LET days_alive == TimedeltaDays(target_date, birthdate)
    IN [physical |-> SinCycle(days_alive, PHYSICAL_CYCLE_DAYS),
        emotional |-> SinCycle(days_alive, EMOTIONAL_CYCLE_DAYS),
        intellectual |-> SinCycle(days_alive, INTELLECTUAL_CYCLE_DAYS)]

(***************************************************************************)
(* BiorhythmCalculator.generate_timeseries_json (src/biorythm.py:420-481)  *)
(***************************************************************************)
\* a list of str
PyStrList(names) == PyList([k \in DOMAIN names |-> PyStr(names[k])])

\* a variant of TimeseriesEntry that keeps the datetime instead of formatting it
TimeseriesEntryRawDate(birthdate, current_date) ==
    LET days_alive == TimedeltaDays(current_date, birthdate)
        values == CalculateBiorhythmValues(birthdate, current_date)
        crit == IsCriticalDay(values.physical, values.emotional, values.intellectual)
    IN PyDict([date |-> [t |-> "datetime", v |-> current_date],
               days_alive |-> PyInt(days_alive),
               physical |-> PyFloat(values.physical),
               emotional |-> PyFloat(values.emotional),
               intellectual |-> PyFloat(values.intellectual),
               critical_cycles |-> PyStrList(crit.critical_cycles)])

\* the record of one day (lines 436-446)
TimeseriesEntry(birthdate, current_date) ==
    LET days_alive == TimedeltaDays(current_date, birthdate)
        values == CalculateBiorhythmValues(birthdate, current_date)
        crit == IsCriticalDay(values.physical, values.emotional, values.intellectual)
    IN PyDict([date |-> PyStr(StrftimeYmd(current_date)),
               days_alive |-> PyInt(days_alive),
               physical |-> PyFloat(values.physical),
               emotional |-> PyFloat(values.emotional),
               intellectual |-> PyFloat(values.intellectual),
               critical_cycles |-> PyStrList(crit.critical_cycles)])

\* a variant of EntryIsCritical that wants more than one critical cycle
EntryIsCriticalSeveral(birthdate, current_date) ==
    LET values == CalculateBiorhythmValues(birthdate, current_date)
    IN Len(IsCriticalDay(values.physical, values.emotional,
                         values.intellectual).critical_cycles) > 1

\* whether the day goes to the critical-days summary (line 448)
EntryIsCritical(birthdate, current_date) ==
    LET values == CalculateBiorhythmValues(birthdate, current_date)
    IN IsCriticalDay(values.physical, values.emotional, values.intellectual).is_critical

\* a variant of CriticalDayItem that names only the first critical cycle
CriticalDayItemFirstCycle(birthdate, current_date) ==
    LET values == CalculateBiorhythmValues(birthdate, current_date)
        crit == IsCriticalDay(values.physical, values.emotional, values.intellectual)
    IN PyDict([date |-> PyStr(StrftimeYmd(current_date)),
               cycles |-> PyStrList(SubSeq(crit.critical_cycles, 1, 1))])

\* the summary item of a critical day (lines 449-452)
CriticalDayItem(birthdate, current_date) ==
    LET values == CalculateBiorhythmValues(birthdate, current_date)
        crit == IsCriticalDay(values.physical, values.emotional, values.intellectual)
    IN PyDict([date |-> PyStr(StrftimeYmd(current_date)),
               cycles |-> PyStrList(crit.critical_cycles)])

\* a variant of WindowStartOffset that rounds half the window up
WindowStartOffsetCeil(self) == -((self.days + 1) \div 2)

\* start_date = plot_date - timedelta(days=self.middays)
WindowStartOffset(self) == -self.middays

\* range(self.days)
WindowOffsets(self) == 0..(self.days - 1)

RECURSIVE ExportLoop(_, _, _, _, _, _)
\* the loop of lines 434-452 from day_offset on: the two lists it leaves
ExportLoop(self, birthdate, start_date, day_offset, timeseries, critical_days) ==
    IF day_offset \notin WindowOffsets(self)
    THEN [timeseries |-> timeseries, critical_days |-> critical_days]
    ELSE LET current_date == PlusDays(start_date, day_offset)
         IN ExportLoop(self, birthdate, start_date, day_offset + 1,
                Append(timeseries, TimeseriesEntry(birthdate, current_date)),
                IF EntryIsCritical(birthdate, current_date)
                THEN Append(critical_days, CriticalDayItem(birthdate, current_date))
                ELSE critical_days)

\* a variant of ExportMeta that reports the days_alive the loop ended with
ExportMetaStaleDaysAlive(self, birthdate, plot_date, chart_orientation) ==
    PyDict([generator |-> PyStr("biorhythm_enhanced.py"),
            version |-> PyStr("2025-08-07"),
            birthdate |-> PyStr(StrftimeYmd(birthdate)),
            plot_date |-> PyStr(StrftimeYmd(plot_date)),
            days_alive |-> PyInt(TimedeltaDays(plot_date, birthdate)
                                     - self.middays + self.days - 1),
            cycle_lengths_days |->
                PyDict([physical |-> PyInt(PHYSICAL_CYCLE_DAYS),
                        emotional |-> PyInt(EMOTIONAL_CYCLE_DAYS),
                        intellectual |-> PyInt(INTELLECTUAL_CYCLE_DAYS)]),
            chart_orientation |-> chart_orientation,
            days |-> PyInt(self.days),
            width |-> PyInt(self.width)])

\* the meta mapping (lines 460-474)
ExportMeta(self, birthdate, plot_date, chart_orientation) ==
    PyDict([generator |-> PyStr("biorhythm_enhanced.py"),
            version |-> PyStr("2025-08-07"),
            birthdate |-> PyStr(StrftimeYmd(birthdate)),
            plot_date |-> PyStr(StrftimeYmd(plot_date)),
            days_alive |-> PyInt(TimedeltaDays(plot_date, birthdate)),
            cycle_lengths_days |->
                PyDict([physical |-> PyInt(PHYSICAL_CYCLE_DAYS),
                        emotional |-> PyInt(EMOTIONAL_CYCLE_DAYS),
                        intellectual |-> PyInt(INTELLECTUAL_CYCLE_DAYS)]),
            chart_orientation |-> chart_orientation,
            days |-> PyInt(self.days),
            width |-> PyInt(self.width)])

\* the cycle_repeats mapping (lines 455-457, 475-478)
ExportCycleRepeats(birthdate, plot_date) ==
    LET days_alive == TimedeltaDays(plot_date, birthdate)
    IN PyDict([physical_emotional_repeat_in_days |-> PyInt(644 - (days_alive % 644)),
               all_cycles_repeat_in_days |-> PyInt(21252 - (days_alive % 21252))])

\* a variant of GenerateTimeseriesJson that reads the wall clock whether or
\* not a plot date is given
GenerateTimeseriesJsonClockOnly(self, birthdate, plot_date_arg, chart_orientation, clock) ==
    LET first == WindowStartOffset(self)
        start_date == PlusDays(clock, first)
        lists == ExportLoop(self, birthdate, start_date, 0, <<>>, <<>>)
    IN IF ~InDateRange(clock, first)
           \/ \E k \in WindowOffsets(self) : ~InDateRange(start_date, k)
       THEN [exc |-> "OverflowError"]
       ELSE [exc |-> "none",
             ret |-> PyDict([meta |-> ExportMeta(self, birthdate, clock,
                                                 chart_orientation),
                             cycle_repeats |-> ExportCycleRepeats(birthdate, clock),
                             critical_days |-> PyList(lists.critical_days),
                             data |-> PyList(lists.timeseries)])]

\* generate_timeseries_json at wall-clock time `clock`; plot_date_arg is None
\* or a datetime.  Date arithmetic leaving year 1..9999 is an OverflowError.
GenerateTimeseriesJson(self, birthdate, plot_date_arg, chart_orientation, clock) ==
    LET plot_date == IF IsNone(plot_date_arg) THEN clock ELSE plot_date_arg.v
        first == WindowStartOffset(self)
        start_date == PlusDays(plot_date, first)
        lists == ExportLoop(self, birthdate, start_date, 0, <<>>, <<>>)
    IN IF ~InDateRange(plot_date, first)
           \/ \E k \in WindowOffsets(self) : ~InDateRange(start_date, k)
       THEN [exc |-> "OverflowError"]
       ELSE [exc |-> "none",
             ret |-> PyDict([meta |-> ExportMeta(self, birthdate, plot_date,
                                                 chart_orientation),
                             cycle_repeats |-> ExportCycleRepeats(birthdate, plot_date),
                             critical_days |-> PyList(lists.critical_days),
                             data |-> PyList(lists.timeseries)])]

(***************************************************************************)
(* json.dumps and json.loads, as the consumers of the payload use them     *)
(* (src/tests/test_json_timeseries.py:321-334)                             *)
(***************************************************************************)
\* the digits a float keeps after the point, in units of 1/SCALE
FracDigits == Len(NatToChars(SCALE)) - 1

RECURSIVE StripZeros(_)
\* repr drops trailing zeros of the fraction but keeps one digit
StripZeros(s) ==
    IF Len(s) > 1 /\ s[Len(s)] = "0" THEN StripZeros(SubSeq(s, 1, Len(s) - 1)) ELSE s

RECURSIVE PadRight(_, _)
PadRight(s, w) == IF Len(s) >= w THEN s ELSE PadRight(s \o <<"0">>, w)

Sign(n) == IF n < 0 THEN <<"-">> ELSE <<>>

\* int.__repr__
IntRepr(n) == Sign(n) \o NatToChars(Abs(n))

\* float.__repr__
FloatRepr(x) ==
    Sign(x) \o NatToChars(Abs(x) \div SCALE) \o <<".">>
        \o StripZeros(PadZero(NatToChars(Abs(x) % SCALE), FracDigits))

\* the place of the first c in s, 0 when there is none
IndexOf(s, c) ==
    IF \E k \in DOMAIN s : s[k] = c
    THEN CHOOSE k \in DOMAIN s : s[k] = c /\ \A m \in 1..(k - 1) : s[m] # c
    ELSE 0

\* the Python number a JSON number lexeme denotes: a float when it has a
\* fraction, else an int
ParseNumber(lex) ==
    LET neg == Len(lex) > 0 /\ lex[1] = "-"
        body == IF neg THEN Tail(lex) ELSE lex
        dot == IndexOf(body, ".")
        sgn == IF neg THEN -1 ELSE 1
    IN IF dot = 0 THEN PyInt(sgn * CharsToNat(body))
       ELSE PyFloat(sgn * (CharsToNat(SubSeq(body, 1, dot - 1)) * SCALE
                + CharsToNat(PadRight(SubSeq(body, dot + 1, Len(body)), FracDigits))))

RECURSIVE JsonSerializable(_)
\* json.dumps raises TypeError for an object of any other type
JsonSerializable(x) ==
    CASE x.t \in {"str", "int", "float", "bool", "NoneType"} -> TRUE
      [] x.t \in {"list", "tuple", "dict"} ->
             \A k \in DOMAIN x.v : JsonSerializable(x.v[k])
      [] OTHER -> FALSE

RECURSIVE JsonEncode(_)
\* the JSON document of a serialisable value
JsonEncode(x) ==
    CASE x.t = "str" -> [j |-> "string", v |-> x.v]
      [] x.t = "int" -> [j |-> "number", v |-> IntRepr(x.v)]
      [] x.t = "float" -> [j |-> "number", v |-> FloatRepr(x.v)]
      [] x.t = "bool" -> [j |-> "literal", v |-> IF x.v THEN "true" ELSE "false"]
      [] x.t = "NoneType" -> [j |-> "literal", v |-> "null"]
      [] x.t \in {"list", "tuple"} ->
             [j |-> "array", v |-> [k \in DOMAIN x.v |-> JsonEncode(x.v[k])]]
      [] x.t = "dict" ->
             [j |-> "object", v |-> [k \in DOMAIN x.v |-> JsonEncode(x.v[k])]]

\* json.dumps(x)
JsonDumps(x) ==
    IF JsonSerializable(x) THEN [exc |-> "none", doc |-> JsonEncode(x)]
    ELSE [exc |-> "TypeError"]

RECURSIVE JsonLoads(_)
\* json.loads(doc)
JsonLoads(doc) ==
    CASE doc.j = "string" -> PyStr(doc.v)
      [] doc.j = "number" -> ParseNumber(doc.v)
      [] doc.j = "literal" ->
             IF doc.v = "null" THEN PyNone ELSE [t |-> "bool", v |-> doc.v = "true"]
      [] doc.j = "array" -> PyList([k \in DOMAIN doc.v |-> JsonLoads(doc.v[k])])
      [] doc.j = "object" -> PyDict([k \in DOMAIN doc.v |-> JsonLoads(doc.v[k])])

RECURSIVE PyEq(_, _)
\* a == b on Python values
PyEq(a, b) ==
    CASE a.t = "int" /\ b.t = "float" -> a.v * SCALE = b.v
      [] a.t = "float" /\ b.t = "int" -> a.v = b.v * SCALE
      [] a.t # b.t -> FALSE
      [] a.t \in {"list", "tuple", "dict"} ->
             /\ DOMAIN a.v = DOMAIN b.v
             /\ \A k \in DOMAIN a.v : PyEq(a.v[k], b.v[k])
      [] OTHER -> a.v = b.v

(***************************************************************************)
(* Standard output.  A printed line is [text, cells, tail]: a literal, the *)
(* characters the program computed one by one, and a closing literal.      *)
(* The two pictographs of the source are written by their code points.     *)
(***************************************************************************)
WARNING_SIGN == "<U+26A0 U+FE0F>"
INFO_SIGN == "<U+2139 U+FE0F>"

Line(text, cells, tail) == [text |-> text, cells |-> cells, tail |-> tail]
\* print(s) of a literal or formatted str
Text(s) == Line(s, <<>>, "")
\* a list built item by item: all its items are computed once, when it is built
ListOf(f) == <<>> \o f
\* c * n
Rep(c, n) == ListOf([k \in 1..n |-> c])

UpperChar(c) ==
    IF \E k \in DOMAIN LowerLetters : LowerLetters[k] = c
    THEN UpperLetters[CHOOSE k \in DOMAIN LowerLetters : LowerLetters[k] = c]
    ELSE c

\* str.upper()
Upper(s) == [k \in DOMAIN s |-> UpperChar(s[k])]

RECURSIVE ZeroPadStr(_, _)
\* a natural number zero-padded to a width, as %d, %m and %Y write it
ZeroPadStr(s, w) == IF Len(s) >= w THEN s ELSE ZeroPadStr("0" \o s, w)

RECURSIVE Grouped(_)
\* f"{n:,}" of a natural number
Grouped(n) ==
    IF n < 1000 THEN ToString(n)
    ELSE Grouped(n \div 1000) \o "," \o ZeroPadStr(ToString(n % 1000), 3)

\* f"{n:,}"
FormatThousands(n) == IF n < 0 THEN "-" \o Grouped(-n) ELSE Grouped(n)

DayAbbr == <<"Mon", "Tue", "Wed", "Thu", "Fri", "Sat", "Sun">>
MonthAbbr == <<"Jan", "Feb", "Mar", "Apr", "May", "Jun", "Jul", "Aug", "Sep",
               "Oct", "Nov", "Dec">>

\* datetime.weekday(): Monday is 0
Weekday(d) == (d.ord + 6) % 7

\* d.strftime("%a %b %d")
StrftimeShort(d) ==
    LET ymd == OrdToYmd(d.ord)
    IN DayAbbr[Weekday(d) + 1] \o " " \o MonthAbbr[ymd[2]] \o " "
           \o ZeroPadStr(ToString(ymd[3]), 2)

\* d.strftime("%a %b %d %Y")
StrftimeLong(d) ==
    StrftimeShort(d) \o " " \o ZeroPadStr(ToString(OrdToYmd(d.ord)[1]), 4)

\* d.strftime("%d.%m.")
StrftimeDayMonth(d) ==
    LET ymd == OrdToYmd(d.ord)
    IN PadZero(NatToChars(ymd[3]), 2) \o <<".">> \o PadZero(NatToChars(ymd[2]), 2)
           \o <<".">>

\* f"{x:+.1f}" of a percentage x = 100 * value, value in units of 1/SCALE
FormatPercent(value) ==
    LET tenths == (Abs(value) * 1000) \div SCALE
    IN (IF value < 0 THEN "-" ELSE "+") \o ToString(tenths \div 10) \o "."
           \o ToString(tenths % 10)

RECURSIVE JoinComma(_)
\* ", ".join(names)
JoinComma(names) ==
    IF Len(names) = 0 THEN ""
    ELSE IF Len(names) = 1 THEN names[1]
    ELSE names[1] \o ", " \o JoinComma(Tail(names))

(***************************************************************************)
(* BiorhythmCalculator._print_chart_header (src/biorythm.py:188-212)       *)
(***************************************************************************)
\* a variant of RepeatFigures that reports 0 instead of a whole period
RepeatFiguresZeroBased(days_alive) ==
    [days_to_23_28_repeat |-> (644 - (days_alive % 644)) % 644,
     days_to_full_repeat |-> (21252 - (days_alive % 21252)) % 21252]

\* lines 208-209
RepeatFigures(days_alive) ==
    [days_to_23_28_repeat |-> 644 - (days_alive % 644),
     days_to_full_repeat |-> 21252 - (days_alive % 21252)]

HeaderRule == "============================================================"

\* the lines the header prints
PrintChartHeader(self, birthdate, plot_date, days_alive) ==
    LET orientation_display == Upper(self.orientation)
        figures == RepeatFigures(days_alive)
    IN <<Text(HeaderRule),
         Line("BIORHYTHM CHART (", orientation_display, ") - FOR ENTERTAINMENT ONLY"),
         Text(WARNING_SIGN \o "  WARNING: This theory has NO SCIENTIFIC BASIS"),
         Text(HeaderRule),
         Text("Birth:  " \o StrftimeLong(birthdate)),
         Text("Plot:   " \o StrftimeLong(plot_date)),
         Text("Alive:  " \o FormatThousands(days_alive) \o " days"),
         Text(""),
         Text("Legend:"),
         Text("p:      Physical (23-day cycle) - coordination, strength, well-being"),
         Text("e:      Emotional (28-day cycle) - creativity, sensitivity, mood"),
         Text("i:      Intellectual (33-day cycle) - alertness, analytical functioning"),
         Text("*:      Multiple cycles overlap at this position"),
         Text("!:      Critical day (cycle near zero - traditionally considered risky)"),
         Text(""),
         Text("Cycle Info: Physical+Emotional repeat in "
                  \o ToString(figures.days_to_23_28_repeat) \o " days"),
         Text("           All cycles repeat in "
                  \o ToString(figures.days_to_full_repeat) \o " days"),
         Text("")>>

(***************************************************************************)
(* BiorhythmCalculator._print_chart_title (src/biorythm.py:214-222)        *)
(***************************************************************************)
sTitle == "PASSIVE  CRITICAL  ACTIVE"

PrintChartTitle(self, plot_date) ==
    IF self.orientation = sHorizontal THEN <<>>
    ELSE LET datepad == Len(StrftimeShort(plot_date)) + 1
             pad == datepad + self.midwidth - (Len(sTitle) \div 2)
         IN <<Line("", Rep(" ", pad), sTitle),
              Line("", Rep(" ", datepad) \o <<"-", "1", "0", "0", "%", " ">>
                           \o Rep("=", self.width - 12),
                   " +100%")>>

(***************************************************************************)
(* BiorhythmCalculator._generate_vertical_chart (src/biorythm.py:245-297)  *)
(***************************************************************************)
\* one pass of the loop body (lines 254-278): the line printed for the day,
\* or the exception that ends the loop
VerticalChartDay(self, birthdate, plot_date, start_date, day_offset) ==
    IF ~InDateRange(start_date, day_offset) THEN [exc |-> "OverflowError"]
    ELSE LET current_date == PlusDays(start_date, day_offset)
             is_plot_date == current_date = plot_date
             values == CalculateBiorhythmValues(birthdate, current_date)
             crit == IsCriticalDay(values.physical, values.emotional,
                                   values.intellectual)
             pos == CalculateChartPositions(self, values.physical,
                        values.emotional, values.intellectual)
             critical_marker == IF crit.is_critical THEN " " \o WARNING_SIGN ELSE ""
             Printed(chart_line) ==
                 IF chart_line.exc # "none" THEN [exc |-> chart_line.exc]
                 ELSE [exc |-> "none",
                       current_date |-> current_date,
                       is_plot_date |-> is_plot_date,
                       values |-> values,
                       crit |-> crit,
                       printed |-> Line(StrftimeShort(current_date),
                                        chart_line.line, critical_marker)]
         IN Printed(CreateChartLine(self, pos[1], pos[2], pos[3], is_plot_date,
                                    crit.is_critical))

RECURSIVE VerticalChartLoop(_, _, _, _, _, _)
\* the loop of lines 253-278 from day_offset on.  acc holds what was printed,
\* the critical days met and the percentages of the plot date, if met.
VerticalChartLoop(self, birthdate, plot_date, start_date, day_offset, acc) ==
    LET After(day) ==
            IF day.exc # "none" THEN [acc EXCEPT !.exc = day.exc]
            ELSE VerticalChartLoop(self, birthdate, plot_date, start_date,
                     day_offset + 1,
                     [exc |-> "none",
                      out |-> Append(acc.out, day.printed),
                      critical_days |->
                          IF day.crit.is_critical
                          THEN Append(acc.critical_days,
                                      [date |-> day.current_date,
                                       cycles |-> day.crit.critical_cycles])
                          ELSE acc.critical_days,
                      plot_percentages |->
                          IF day.is_plot_date THEN <<day.values>>
                          ELSE acc.plot_percentages])
    IN IF day_offset \notin WindowOffsets(self) THEN acc
       ELSE After(VerticalChartDay(self, birthdate, plot_date, start_date,
                                   day_offset))

\* lines 279-286
PrintPlotPercentages(plot_date, plot_percentages) ==
    IF Len(plot_percentages) = 0 THEN <<>>
    ELSE LET datepad == Len(StrftimeShort(plot_date)) + 1
             v == plot_percentages[1]
         IN <<Line("", Rep(" ", datepad),
                   "p:" \o FormatPercent(v.physical) \o "% e:"
                       \o FormatPercent(v.emotional) \o "% i:"
                       \o FormatPercent(v.intellectual) \o "%")>>

\* lines 287-297
PrintCriticalDays(critical_days) ==
    IF Len(critical_days) > 0
    THEN <<Text(""),
           Text(WARNING_SIGN \o "  CRITICAL DAYS detected in chart period:")>>
         \o [k \in DOMAIN critical_days |->
                Text("   " \o StrftimeShort(critical_days[k].date) \o ": "
                         \o JoinComma(critical_days[k].cycles)
                         \o " cycle(s) near zero")]
    ELSE <<Text(""),
           Text(INFO_SIGN \o "  No critical days in the displayed period.")>>

\* what the vertical chart prints, and the exception that cut it short
GenerateVerticalChart(self, birthdate, plot_date) ==
    LET title == PrintChartTitle(self, plot_date)
        first == WindowStartOffset(self)
        start_date == PlusDays(plot_date, first)
        Finished(loop) ==
            IF loop.exc # "none" THEN [exc |-> loop.exc, out |-> loop.out]
            ELSE [exc |-> "none",
                  out |-> loop.out
                              \o PrintPlotPercentages(plot_date, loop.plot_percentages)
                              \o PrintCriticalDays(loop.critical_days)]
    IN IF ~InDateRange(plot_date, first)
       THEN [exc |-> "OverflowError", out |-> title]
       ELSE Finished(VerticalChartLoop(self, birthdate, plot_date, start_date, 0,
                         [exc |-> "none", out |-> title, critical_days |-> <<>>,
                          plot_percentages |-> <<>>]))

(***************************************************************************)
(* BiorhythmCalculator._create_combined_horizontal_wave_matrix             *)
(* (src/biorythm.py:346-418)                                               *)
(***************************************************************************)
chart_height == 20

\* round(n / d) for n >= 0, d > 0: halves go to the even neighbour
RoundHalfEven(n, d) ==
    LET q == n \div d
        r == n % d
    IN IF 2 * r < d THEN q
       ELSE IF 2 * r > d THEN q + 1
       ELSE IF q % 2 = 0 THEN q ELSE q + 1

\* int(round((1 - val) / 2 * (chart_height - 1))): top = +1, bottom = -1
WaveRow(val) == RoundHalfEven((SCALE - val) * (chart_height - 1), 2 * SCALE)

CycleSymbols == <<"p", "e", "i">>
CyclePeriods == <<PHYSICAL_CYCLE_DAYS, EMOTIONAL_CYCLE_DAYS, INTELLECTUAL_CYCLE_DAYS>>

\* the (row, col) list of one cycle (lines 364-371); rows and columns from 0
WavePositions(birthdate, start_date, width, period) ==
    ListOf([k \in 1..width |->
        LET date == PlusDays(start_date, k - 1)
            days_alive == TimedeltaDays(date, birthdate)
        IN [row |-> WaveRow(SinCycle(days_alive, period)), col |-> k - 1]])

\* a variant of OverlayCell where a later cycle replaces an earlier one
OverlayCellLastWins(current, symbol) == symbol

\* lines 378-385: what a cell holds after a cycle is drawn on it
OverlayCell(current, symbol) ==
    IF current = " " THEN symbol
    ELSE IF current \in {"p", "e", "i"} THEN "*"
    ELSE IF current = "*" THEN "!"
    ELSE current

RECURSIVE OverlayTimes(_, _, _)
\* a cell after n positions of one cycle fell on it
OverlayTimes(current, symbol, n) ==
    IF n = 0 THEN current
    ELSE OverlayTimes(OverlayCell(current, symbol), symbol, n - 1)

\* the inner loop of lines 377-385: every position of the cycle that lies in
\* the matrix is drawn on its cell
OverlayWave(mat, wave, symbol) ==
    LET hit == {wave[k] : k \in DOMAIN wave}
        Times(row, col) ==
            Cardinality({k \in DOMAIN wave : wave[k] = [row |-> row, col |-> col]})
    IN ListOf([r \in DOMAIN mat |->
           ListOf([c \in DOMAIN mat[r] |->
               IF [row |-> r - 1, col |-> c - 1] \in hit
               THEN OverlayTimes(mat[r][c], symbol, Times(r - 1, c - 1))
               ELSE mat[r][c]])])

RECURSIVE OverlayWaves(_, _, _)
\* the loop of line 375 from the idx-th cycle on
OverlayWaves(mat, waves, idx) ==
    IF idx > Len(waves) THEN mat
    ELSE OverlayWaves(OverlayWave(mat, waves[idx], CycleSymbols[idx]),
                      waves, idx + 1)

RECURSIVE MarkPlotDateColumnBefore(_, _, _, _)
\* a variant of MarkPlotDate that takes the column before the centre column
MarkPlotDateColumnBefore(mat, waves, center_col, idx) ==
    IF idx > Len(waves) THEN mat
    ELSE LET row == waves[idx][center_col].row + 1
             col == waves[idx][center_col].col + 1
         IN MarkPlotDateColumnBefore(
                IF mat[row][col] \in {"p", "e", "i"}
                THEN [mat EXCEPT ![row][col] = UpperChar(mat[row][col])]
                ELSE mat,
                waves, center_col, idx + 1)

RECURSIVE MarkPlotDate(_, _, _, _)
\* lines 390-395: upper-case the single-cycle marks of the centre column
MarkPlotDate(mat, waves, center_col, idx) ==
    IF idx > Len(waves) THEN mat
    ELSE LET row == waves[idx][center_col + 1].row + 1
             col == waves[idx][center_col + 1].col + 1
         IN MarkPlotDate(
                IF mat[row][col] \in {"p", "e", "i"}
                THEN [mat EXCEPT ![row][col] = UpperChar(mat[row][col])]
                ELSE mat,
                waves, center_col, idx + 1)

RECURSIVE WriteLabel(_, _, _, _)
\* lines 413-415: the characters of one label from the j-th on
WriteLabel(date_labels, label, i, j) ==
    IF j >= Len(label) THEN date_labels
    ELSE WriteLabel(IF i + j < Len(date_labels)
                    THEN [date_labels EXCEPT ![i + j + 1] = label[j + 1]]
                    ELSE date_labels,
                    label, i, j + 1)

RECURSIVE DateLabels(_, _, _, _)
\* lines 411-415: range(0, width, label_interval) from i on
DateLabels(date_labels, start_date, label_interval, i) ==
    IF i >= Len(date_labels) THEN date_labels
    ELSE DateLabels(WriteLabel(date_labels,
                               StrftimeDayMonth(PlusDays(start_date, i)), i, 0),
                    start_date, label_interval, i + label_interval)

\* what the horizontal chart prints, the exception that cut it short, and the
\* matrix as the overlay loop left it (before the plot date is marked)
CreateCombinedHorizontalWaveMatrix(self, birthdate, plot_date) ==
    LET width == self.width
        first == -(width \div 2)
        start_date == PlusDays(plot_date, first)
        center_col == width \div 2
        axis_line == [Rep(" ", width) EXCEPT ![center_col + 1] = "|"]
        label_interval == Max(1, width \div 6)
        date_labels == DateLabels(Rep(" ", width), start_date, label_interval, 0)
        Printed(overlaid, mat) ==
            [exc |-> "none",
             out |-> <<Text("BIORHYTHM WAVE (all cycles)")>>
                         \o [r \in 1..chart_height |-> Line("", mat[r], "")]
                         \o <<Line("Zero Axis   : ", axis_line, ""),
                              Line("Date        : ", date_labels, ""),
                              Text(""),
                              Text("Legend: p=Physical  e=Emotional  i=Intellectual  *=2 overlap  !=3 overlap")>>,
             overlaid |-> overlaid]
        Marked(waves, overlaid) ==
            Printed(overlaid, MarkPlotDate(overlaid, waves, center_col, 1))
        Drawn(waves) ==
            Marked(waves,
                   OverlayWaves(ListOf([r \in 1..chart_height |-> Rep(" ", width)]), waves, 1))
    IN IF ~InDateRange(plot_date, first)
           \/ \E i \in 0..(width - 1) : ~InDateRange(start_date, i)
       THEN [exc |-> "OverflowError", out |-> <<>>, overlaid |-> <<>>]
       ELSE Drawn(ListOf([idx \in DOMAIN CyclePeriods |->
                WavePositions(birthdate, start_date, width, CyclePeriods[idx])]))

(***************************************************************************)
(* BiorhythmCalculator.generate_chart (src/biorythm.py:224-243)            *)
(***************************************************************************)
\* generate_chart at wall-clock time `clock`: the exception it raises, the
\* exception that one wraps, and everything printed by the time it is left
GenerateChart(self, birthdate, plot_date_arg, clock) ==
    LET plot_date == IF IsNone(plot_date_arg) THEN clock ELSE plot_date_arg.v
        days_alive == TimedeltaDays(plot_date, birthdate)
        horizontal == self.orientation = sHorizontal
        Left(header, body) ==
            IF body.exc # "none"
            THEN [exc |-> "BiorhythmError", cause |-> body.exc,
                  out |-> header \o body.out,
                  overlaid |-> IF horizontal THEN body.overlaid ELSE <<>>]
            ELSE [exc |-> "none", cause |-> "none",
                  out |-> header \o body.out
                             \o <<Text(""),
                                  Text("REMEMBER: This is pseudoscience with no proven validity!")>>,
                  overlaid |-> IF horizontal THEN body.overlaid ELSE <<>>]
    IN Left(PrintChartHeader(self, birthdate, plot_date, days_alive),
            IF horizontal
            THEN CreateCombinedHorizontalWaveMatrix(self, birthdate, plot_date)
            ELSE GenerateVerticalChart(self, birthdate, plot_date))

(***************************************************************************)
(* Error messages (src/biorythm.py:122, 488-506)                           *)
(***************************************************************************)
RECURSIVE JoinChars(_)
\* "".join(chars)
JoinChars(s) == IF Len(s) = 0 THEN "" ELSE s[1] \o JoinChars(Tail(s))

\* str(x) of an int, a str or None, as an f-string writes it
PyFormat(x) ==
    CASE x.t = "int" -> ToString(x.v)
      [] x.t = "str" -> JoinChars(x.v)
      [] OTHER -> "None"

\* the message of the DateValidationError create_validated_date raises for
\* int or None components
DateValidationMessage(year, month, day, clock) ==
    IF ~IsInstanceInt(year) \/ ~(MIN_YEAR <= year.v /\ year.v <= MAX_YEAR)
    THEN "Year must be between " \o ToString(MIN_YEAR) \o " and "
             \o ToString(MAX_YEAR) \o ", got: " \o PyFormat(year)
    ELSE IF ~IsInstanceInt(month) \/ ~(1 <= month.v /\ month.v <= 12)
    THEN "Month must be between 1 and 12, got: " \o PyFormat(month)
    ELSE IF ~IsInstanceInt(day) \/ ~(1 <= day.v /\ day.v <= 31)
    THEN "Day must be between 1 and 31, got: " \o PyFormat(day)
    ELSE IF DatetimeValueError(year.v, month.v, day.v)
    THEN "Invalid date " \o ToString(year.v) \o "-"
             \o ZeroPadStr(ToString(month.v), 2) \o "-"
             \o ZeroPadStr(ToString(day.v), 2) \o ": day is out of range for month"
    ELSE "Birth date cannot be in the future"

\* the message of the ChartParameterError _validate_orientation raises
OrientationMessage(orientation) ==
    "Orientation must be 'vertical' or 'horizontal', got: " \o PyFormat(orientation)

\* str(e) of the exceptions date arithmetic and list indexing raise
CauseMessage(cause) ==
    IF cause = "OverflowError" THEN "date value out of range"
    ELSE "list assignment index out of range"

(***************************************************************************)
(* UserInterface.get_user_input (src/biorythm.py:513-549).  stdin is the   *)
(* sequence of lines the user types; reading past its end is EOFError.     *)
(***************************************************************************)
\* int(s) of a stripped line: digits with an optional sign
IsIntLiteral(s) ==
    LET body == IF Len(s) > 0 /\ s[1] \in {"+", "-"} THEN Tail(s) ELSE s
    IN Len(body) > 0 /\ \A k \in DOMAIN body : IsDigit(body[k])

IntOf(s) ==
    IF s[1] = "-" THEN -CharsToNat(Tail(s))
    ELSE IF s[1] = "+" THEN CharsToNat(Tail(s))
    ELSE CharsToNat(s)

UiIntro ==
    <<Text(""),
      Text("Biorhythm Chart Generator (Pseudoscience Demonstration):"),
      Text("Historical Context:"),
      Text("<U+2022> Developed by Wilhelm Fliess (friend of Sigmund Freud) in 1890s"),
      Text("<U+2022> Popularized in USA during 1970s by Bernard Gittelson"),
      Text("<U+2022> Extensively tested - no scientific evidence found"),
      Text("<U+2022> All 134+ studies confirm it has no predictive value"),
      Text("")>>

\* the prompts of the four input() calls, and what is printed before the fourth
UiPrompts ==
    <<<<Text("  Enter your birth YEAR (" \o ToString(MIN_YEAR) \o "-"
                \o ToString(MAX_YEAR) \o "): ")>>,
      <<Text("  Enter your birth MONTH (1-12): ")>>,
      <<Text("  Enter your birth DAY (1-31): ")>>,
      <<Text(""),
        Text("Chart Orientation:"),
        Text("  1. Vertical (traditional, top-to-bottom timeline)"),
        Text("  2. Horizontal (left-to-right timeline)"),
        Text("  Choose orientation (1 or 2, default=1): ")>>>>

RECURSIVE UiPrinted(_)
\* what is on the screen when the k-th input() is reached
UiPrinted(k) == IF k = 0 THEN UiIntro ELSE UiPrinted(k - 1) \o UiPrompts[k]

UiNoInput == [year |-> PyNone, month |-> PyNone, day |-> PyNone,
              orientation |-> PyNone]

GetUserInput(stdin) ==
    IF Len(stdin) < Len(UiPrompts)
    THEN [exc |-> "DateValidationError", msg |-> "Unexpected end of input",
          out |-> UiPrinted(Len(stdin) + 1), ret |-> UiNoInput]
    ELSE LET year_input == stdin[1]
             month_input == stdin[2]
             day_input == stdin[3]
             orientation_input == stdin[4]
             bad == {k \in 1..3 : ~IsIntLiteral(stdin[k])}
             first_bad == CHOOSE k \in bad : \A m \in bad : k <= m
             orientation == IF orientation_input = <<"2">> THEN sHorizontal
                            ELSE sVertical
             complaint ==
                 IF orientation_input # <<"2">> /\ Len(orientation_input) > 0
                        /\ orientation_input # <<"1">>
                 THEN <<Text("Invalid orientation choice '"
                                 \o JoinChars(orientation_input)
                                 \o "', using vertical")>>
                 ELSE <<>>
         IN IF bad # {}
            THEN [exc |-> "DateValidationError",
                  msg |-> "Invalid number format: invalid literal for int() with base 10: '"
                              \o JoinChars(stdin[first_bad]) \o "'",
                  out |-> UiPrinted(Len(UiPrompts)), ret |-> UiNoInput]
            ELSE [exc |-> "none", msg |-> "",
                  out |-> UiPrinted(Len(UiPrompts)) \o complaint,
                  ret |-> [year |-> PyInt(IntOf(year_input)),
                           month |-> PyInt(IntOf(month_input)),
                           day |-> PyInt(IntOf(day_input)),
                           orientation |-> PyStr(orientation)]]

(***************************************************************************)
(* get_terminal_width and main (src/biorythm.py:559-607)                   *)
(***************************************************************************)
\* max(columns, min_width), or the default when the size cannot be had
GetTerminalWidth(columns) == IF IsNone(columns) THEN 80 ELSE Max(columns.v, 40)

MainBanner ==
    <<Text(""),
      Text("!!!!!!!!!!!!!!!!!!!!!!!!!!!!!!!!!!!!!!!!!!!!!!!!!!!!!!!!!!!!!!!!!!!!!!"),
      Text(WARNING_SIGN \o "  SCIENTIFIC WARNING " \o WARNING_SIGN),
      Text("Biorhythm theory is PSEUDOSCIENCE with NO scientific evidence."),
      Text("Multiple peer-reviewed studies have found NO correlation between"),
      Text("biorhythm cycles and human performance beyond random chance."),
      Text("This program is provided for ENTERTAINMENT PURPOSES ONLY."),
      Text("!!!!!!!!!!!!!!!!!!!!!!!!!!!!!!!!!!!!!!!!!!!!!!!!!!!!!!!!!!!!!!!!!!!!!!")>>

\* what main did not get to
NotValidated == [called |-> FALSE, year |-> PyNone, month |-> PyNone,
                 day |-> PyNone, exc |-> "none"]
NotConstructed == [called |-> FALSE, width |-> PyNone, days |-> PyNone,
                   orientation |-> PyNone, exc |-> "none"]
NotCharted == [called |-> FALSE, birthdate |-> PyNone, exc |-> "none"]

\* the parameters of main (lines 566-571)
MainKeywords == {"year", "month", "day", "orientation"}

\* the keyword arguments of a call: the names given and their values (None
\* for a name that is not given)
Kwargs(given, year, month, day, orientation, days) ==
    [given |-> given, year |-> year, month |-> month, day |-> day,
     orientation |-> orientation, days |-> days]

NoKwargs == Kwargs({}, PyNone, PyNone, PyNone, PyNone, PyNone)

\* a variant of MainFailed that exits with status 0
MainFailedExitZero(out, msg, validated, constructed, charted) ==
    [exc |-> "none", exit |-> "0", out |-> Append(out, Text("Error: " \o msg)),
     validated |-> validated, constructed |-> constructed, charted |-> charted]

\* the except clauses of lines 593-600: print the reason, sys.exit(1)
MainFailed(out, msg, validated, constructed, charted) ==
    [exc |-> "none", exit |-> "1", out |-> Append(out, Text("Error: " \o msg)),
     validated |-> validated, constructed |-> constructed, charted |-> charted]

\* main(**kwargs) at wall-clock time `clock`, on a terminal of `columns`
\* columns, the user typing `stdin`.  exc is the exception that leaves main,
\* exit the status of sys.exit ("none": main returned).
Main(kwargs, stdin, columns, clock) ==
    LET interactive == IsNone(kwargs.year) \/ IsNone(kwargs.month)
                           \/ IsNone(kwargs.day)
        ui == GetUserInput(stdin)
        year == IF interactive THEN ui.ret.year ELSE kwargs.year
        month == IF interactive THEN ui.ret.month ELSE kwargs.month
        day == IF interactive THEN ui.ret.day ELSE kwargs.day
        orientation == IF interactive THEN ui.ret.orientation
                       ELSE IF "orientation" \in kwargs.given THEN kwargs.orientation
                       ELSE PyStr(sVertical)
        out1 == IF interactive THEN MainBanner \o ui.out ELSE MainBanner
        date == CreateValidatedDate(year, month, day, clock)
        validated == [called |-> TRUE, year |-> year, month |-> month,
                      day |-> day, exc |-> date.exc]
        width == PyInt(GetTerminalWidth(columns))
        days == PyInt(DEFAULT_DAYS_TO_PLOT)
        calculator == CalculatorInit(width, days, orientation)
        constructed == [called |-> TRUE, width |-> width, days |-> days,
                        orientation |-> orientation, exc |-> calculator.exc]
        out2 == Append(out1, Text(""))
        \* line 592 and what follows calculator.generate_chart(birthdate)
        Charted(chart) ==
            IF chart.exc # "none"
            THEN MainFailed(out2 \o chart.out,
                            "Failed to generate chart: " \o CauseMessage(chart.cause),
                            validated, constructed,
                            [called |-> TRUE, birthdate |-> PyDatetime(date.date),
                             exc |-> chart.exc])
            ELSE [exc |-> "none", exit |-> "none", out |-> out2 \o chart.out,
                  validated |-> validated, constructed |-> constructed,
                  charted |-> [called |-> TRUE, birthdate |-> PyDatetime(date.date),
                               exc |-> chart.exc]]
    IN IF ~(kwargs.given \subseteq MainKeywords)
       THEN [exc |-> "TypeError", exit |-> "none", out |-> <<>>,
             validated |-> NotValidated, constructed |-> NotConstructed,
             charted |-> NotCharted]
       ELSE IF interactive /\ ui.exc # "none"
       THEN MainFailed(out1, ui.msg, NotValidated, NotConstructed, NotCharted)
       ELSE IF date.exc # "none"
       THEN MainFailed(out1, DateValidationMessage(year, month, day, clock),
                       validated, NotConstructed, NotCharted)
       ELSE IF calculator.exc # "none"
       THEN MainFailed(out1,
                IF ValidateChartParameters(width, days) # "none"
                THEN "Days must be a positive integer, got: " \o PyFormat(days)
                ELSE OrientationMessage(orientation),
                validated, constructed, NotCharted)
       ELSE Charted(GenerateChart(calculator.self, date.date, PyNone, clock))

(***************************************************************************)
(* The command-line entry (src/main.py:35-57)                              *)
(***************************************************************************)
\* bool(x) of an int or None
Truthy(x) == ~IsNone(x) /\ x.v # 0

\* any([args.year, args.month, args.day])
AnyGiven(args) == Truthy(args.year) \/ Truthy(args.month) \/ Truthy(args.day)

\* all([args.year, args.month, args.day])
AllGiven(args) == Truthy(args.year) /\ Truthy(args.month) /\ Truthy(args.day)

EngineNotCalled == [called |-> FALSE, kwargs |-> NoKwargs]

MainNotRun == [exc |-> "none", exit |-> "none", out |-> <<>>,
               validated |-> NotValidated, constructed |-> NotConstructed,
               charted |-> NotCharted]

\* main.py's main() on parsed arguments: the call it makes to the engine's
\* main, what that call did, everything printed and the exit status of the
\* process ("0": main returned)
CliMain(args, stdin, columns, clock) ==
    LET kwargs == IF ~AnyGiven(args) THEN NoKwargs
                  ELSE Kwargs({"year", "month", "day", "orientation", "days"},
                              args.year, args.month, args.day, args.orientation,
                              args.days)
        Ran(engine) ==
            [engine_call |-> [called |-> TRUE, kwargs |-> kwargs],
             engine |-> engine,
             out |-> engine.out,
             exit |-> IF engine.exc # "none" THEN "1"
                      ELSE IF engine.exit # "none" THEN engine.exit
                      ELSE "0"]
    IN IF AnyGiven(args) /\ ~AllGiven(args)
       THEN [engine_call |-> EngineNotCalled, engine |-> MainNotRun,
             out |-> <<Text("Error: When using command line arguments, all date components (--year, --month, --day) must be provided")>>,
             exit |-> "1"]
       ELSE Ran(Main(kwargs, stdin, columns, clock))

(***************************************************************************)
(* The calls the caller makes                                              *)
(***************************************************************************)
\* the arguments offered to the constructor
WidthArgs ==
    {PyInt(n) : n \in {-1, 0, 5} \cup (MIN_CHART_WIDTH..MaxWidth)}
        \cup {PyStr(<<"n","o","t","_","a","n","_","i","n","t">>)}
DaysArgs == {PyInt(n) : n \in 0..MaxDays} \cup {PyFloat(2 * SCALE)}
OrientationArgs ==
    {PyStr(sVertical),
     PyStr(<<"H","o","r","i","z","o","n","t","a","l">>),
     PyStr(<<"i","n","v","a","l","i","d">>), PyNone}

\* cycle values offered to the detector: both sides of the threshold
DetectorValues == {-(CRITICAL_DAY_THRESHOLD + 1), -CRITICAL_DAY_THRESHOLD, 0,
                   CRITICAL_DAY_THRESHOLD, CRITICAL_DAY_THRESHOLD + 1}

\* cycle values offered to the position mapper: the ends, the middle, and
\* values between
MapperValues == {-SCALE, -1, 0, SCALE \div 2, SCALE}

\* date components offered to the validator
YearArgs == {PyInt(y) : y \in {0, 1, 2024, 2025, 9999, 10000}}
                \cup {PyFloat(1990 * SCALE)}
MonthArgs == {PyInt(m) : m \in {0, 2, 8, 13}} \cup {PyNone}
DayArgs == {PyInt(d) : d \in {0, 7, 8, 29, 30, 31, 32}} \cup {PyNone}

\* birth dates offered to the exporter: midnights
BirthdateArgs ==
    {Midnight(1990, 5, 15), Midnight(2025, 7, 24), Midnight(2025, 8, 7),
     Midnight(2025, 8, 9)}

\* plot dates offered to the exporter: None (the wall clock) or a datetime
PlotDateArgs ==
    {PyNone,
     PyDatetime([ord |-> YmdToOrd(2025, 8, 7), tick |-> TicksPerDay - 1]),
     PyDatetime(Midnight(2024, 3, 1)),
     PyDatetime(Midnight(2026, 1, 1)),
     PyDatetime(Midnight(MAX_YEAR, 12, 31))}

\* orientations offered to the exporter
ChartOrientationArgs ==
    {PyStr(sVertical), PyStr(sHorizontal), PyStr(<<"i","n","v","a","l","i","d">>)}

\* what the user types at the prompts: nothing, complete answers, a year
\* that is no number, a birth date in the future, an unknown orientation
\* choice, and an answer cut short
sJsonVertical == <<"j","s","o","n","-","v","e","r","t","i","c","a","l">>

StdinArgs ==
    {<<>>,
     <<<<"1","9","9","0">>, <<"5">>, <<"1","5">>, <<"2">>>>,
     <<<<"a","b","c">>, <<"5">>, <<"1","5">>, <<>>>>,
     <<<<"2","0","2","5">>, <<"8">>, <<"9">>, <<"1">>>>,
     <<<<"1","9","9","0">>, <<"8">>, <<"7">>, <<"3">>>>,
     <<<<"1","9","9","0">>>>}

\* the terminal: its columns, or None when the size cannot be had
ColumnsArgs == {PyInt(20), PyNone}

\* keyword arguments offered to the engine's main: none, a year alone, the
\* date and orientation, and the date, orientation and days
MainKwargsArgs ==
    {NoKwargs, Kwargs({"year"}, PyInt(1990), PyNone, PyNone, PyNone, PyNone)}
        \cup {Kwargs({"year", "month", "day", "orientation"}, PyInt(y), PyInt(m),
                     PyInt(d), PyStr(o), PyNone) :
                  y \in {1990, 2025}, m \in {8, 13}, d \in {7, 9},
                  o \in {sVertical, sHorizontal, sJsonVertical}}
        \cup {Kwargs({"year", "month", "day", "orientation", "days"}, PyInt(y),
                     PyInt(8), PyInt(d), PyStr(o), PyInt(30)) :
                  y \in {1990, 2025}, d \in {7, 9}, o \in {sVertical, sHorizontal}}

\* arguments argparse hands to main.py's main: each date option absent (None)
\* or an int, an orientation among the choices, days (29 unless given)
CliArgs ==
    [year : {PyNone, PyInt(0), PyInt(1990)},
     month : {PyNone, PyInt(8)},
     day : {PyNone, PyInt(7)},
     orientation : {PyStr(sVertical), PyStr(sJsonVertical)},
     days : {PyInt(DEFAULT_DAYS_TO_PLOT), PyInt(30)}]

\* the user is asked only when a date component is missing
StdinFor(interactive) == IF interactive THEN StdinArgs ELSE {<<>>}

Idle == [op |-> "idle"]

\* the notes of a caller that keeps none, and of one that has made no export yet
NoNotes == [t |-> "none"]
BlankNote == [t |-> "blank"]

\* calc = BiorhythmCalculator(width, days, orientation)
Construct(width, days, orientation) ==
    LET r == CalculatorInit(width, days, orientation)
    IN /\ last = Idle
       /\ last' = [op |-> "__init__", width |-> width, days |-> days,
                   orientation |-> orientation, exc |-> r.exc, self |-> r.self]
       /\ calc' = IF r.exc = "none" THEN r.self ELSE calc
       /\ UNCHANGED <<now, noted>>

\* calc.is_critical_day(physical, emotional, intellectual)
CallIsCriticalDay(physical, emotional, intellectual) ==
    /\ last = Idle
    /\ calc # NoCalc
    /\ last' = [op |-> "is_critical_day", physical |-> physical,
                emotional |-> emotional, intellectual |-> intellectual,
                ret |-> IsCriticalDay(physical, emotional, intellectual)]
    /\ UNCHANGED <<now, calc, noted>>

\* calc._calculate_chart_positions(physical, emotional, intellectual)
CallChartPositions(physical, emotional, intellectual) ==
    /\ last = Idle
    /\ calc # NoCalc
    /\ last' = [op |-> "_calculate_chart_positions", physical |-> physical,
                emotional |-> emotional, intellectual |-> intellectual,
                ret |-> CalculateChartPositions(calc, physical, emotional, intellectual)]
    /\ UNCHANGED <<now, calc, noted>>

\* calc.calculate_biorhythm_values(birthdate, target_date).  A caller that
\* keeps notes writes down its first call.
CallCalculateBiorhythmValues(birthdate, target_date) ==
    LET called == [op |-> "calculate_biorhythm_values", birthdate |-> birthdate,
                   target_date |-> target_date,
                   ret |-> CalculateBiorhythmValues(birthdate, target_date)]
    IN /\ last = Idle
       /\ calc # NoCalc
       /\ last' = called
       /\ noted' = IF noted.t = "blank"
                   THEN [t |-> "values", birthdate |-> birthdate,
                         target_date |-> target_date, ret |-> called.ret]
                   ELSE noted
       /\ UNCHANGED <<now, calc>>

\* one chart line of the vertical chart (src/biorythm.py:259-271): classify the
\* day, map the three values to columns and draw the line
CallChartLine(physical, emotional, intellectual, is_plot_date) ==
    LET crit == IsCriticalDay(physical, emotional, intellectual)
        pos == CalculateChartPositions(calc, physical, emotional, intellectual)
        r == CreateChartLine(calc, pos[1], pos[2], pos[3], is_plot_date,
                             crit.is_critical)
    IN /\ last = Idle
       /\ calc # NoCalc
       /\ last' = [op |-> "_create_chart_line", physical |-> physical,
                   emotional |-> emotional, intellectual |-> intellectual,
                   is_plot_date |-> is_plot_date, is_critical |-> crit.is_critical,
                   pos |-> pos, exc |-> r.exc, line |-> r.line]
       /\ UNCHANGED <<now, calc, noted>>

\* DateValidator.create_validated_date(year, month, day)
CallCreateValidatedDate(year, month, day) ==
    /\ last = Idle
    /\ last' = [op |-> "create_validated_date", year |-> year, month |-> month,
                day |-> day, at |-> now,
                ret |-> CreateValidatedDate(year, month, day, now)]
    /\ UNCHANGED <<now, calc, noted>>

\* calc.generate_timeseries_json(birthdate, plot_date, chart_orientation)
CallGenerateTimeseriesJson(birthdate, plot_date, chart_orientation) ==
    LET Returned(r) ==
            /\ last' = [op |-> "generate_timeseries_json", birthdate |-> birthdate,
                        plot_date |-> IF IsNone(plot_date) THEN now ELSE plot_date.v,
                        chart_orientation |-> chart_orientation,
                        explicit |-> ~IsNone(plot_date),
                        at |-> now,
                        exc |-> r.exc,
                        ret |-> IF r.exc = "none" THEN r.ret ELSE PyNone]
            \* a caller that keeps notes writes down its first export with a
            \* plot date of its own
            /\ noted' = IF noted.t = "blank" /\ ~IsNone(plot_date)
                        THEN [t |-> "export", self |-> calc, birthdate |-> birthdate,
                              plot_date |-> plot_date.v,
                              chart_orientation |-> chart_orientation,
                              at |-> now,
                              exc |-> r.exc,
                              ret |-> IF r.exc = "none" THEN r.ret ELSE PyNone]
                        ELSE noted
    IN /\ last = Idle
       /\ calc # NoCalc
       /\ Returned(GenerateTimeseriesJson(calc, birthdate, plot_date,
                                          chart_orientation, now))
       /\ UNCHANGED <<now, calc>>

\* calc.generate_chart(birthdate, plot_date)
CallGenerateChart(birthdate, plot_date) ==
    LET Returned(r) ==
            last' = [op |-> "generate_chart", birthdate |-> birthdate,
                     plot_date |-> IF IsNone(plot_date) THEN now ELSE plot_date.v,
                     exc |-> r.exc, cause |-> r.cause, out |-> r.out,
                     overlaid |-> r.overlaid]
    IN /\ last = Idle
       /\ calc # NoCalc
       /\ Returned(GenerateChart(calc, birthdate, plot_date, now))
       /\ UNCHANGED <<now, calc, noted>>

\* biorythm.main(**kwargs)
CallMain(kwargs, stdin, columns) ==
    LET Returned(r) ==
            last' = [op |-> "main", kwargs |-> kwargs, stdin |-> stdin,
                     columns |-> columns, at |-> now, exc |-> r.exc,
                     exit |-> r.exit, out |-> r.out, validated |-> r.validated,
                     constructed |-> r.constructed, charted |-> r.charted]
    IN /\ last = Idle
       /\ Returned(Main(kwargs, stdin, columns, now))
       /\ UNCHANGED <<now, calc, noted>>

\* python main.py with the parsed arguments args
CallCliMain(args, stdin, columns) ==
    LET Returned(r) ==
            last' = [op |-> "main.py", args |-> args, stdin |-> stdin,
                     columns |-> columns, at |-> now,
                     engine_call |-> r.engine_call, engine |-> r.engine,
                     out |-> r.out, exit |-> r.exit]
    IN /\ last = Idle
       /\ Returned(CliMain(args, stdin, columns, now))
       /\ UNCHANGED <<now, calc, noted>>

\* the caller is done with the outcome of its last call
Release ==
    /\ last # Idle
    /\ last' = Idle
    /\ UNCHANGED <<now, calc, noted>>

(***************************************************************************)
(* The wall clock read by datetime.now()                                   *)
(***************************************************************************)
ClockStart == [ord |-> YmdToOrd(2025, 8, 7), tick |-> 0]

ClockTicks(d) == (d.ord - ClockStart.ord) * TicksPerDay + d.tick

Tick ==
    /\ ClockTicks(now) < MaxClockTicks
    /\ now' = IF now.tick + 1 < TicksPerDay
              THEN [now EXCEPT !.tick = @ + 1]
              ELSE [ord |-> now.ord + 1, tick |-> 0]
    /\ UNCHANGED <<calc, last, noted>>

Init ==
    /\ now = ClockStart
    /\ calc = NoCalc
    /\ last = Idle
    /\ noted = NoNotes

Next ==
    \/ Tick
    \/ Release
    \/ \E w \in WidthArgs, d \in DaysArgs, o \in OrientationArgs : Construct(w, d, o)
    \/ \E p \in DetectorValues, e \in DetectorValues, i \in DetectorValues :
           CallIsCriticalDay(p, e, i)
    \/ \E p \in MapperValues, e \in MapperValues, i \in MapperValues :
           CallChartPositions(p, e, i)
    \/ \E p \in MapperValues, e \in MapperValues, i \in MapperValues, b \in BOOLEAN :
           CallChartLine(p, e, i, b)
    \/ \E y \in YearArgs, m \in MonthArgs, d \in DayArgs :
           CallCreateValidatedDate(y, m, d)
    \/ \E b \in BirthdateArgs, p \in PlotDateArgs, o \in ChartOrientationArgs :
           CallGenerateTimeseriesJson(b, p, o)
    \/ \E b \in BirthdateArgs, p \in PlotDateArgs : CallGenerateChart(b, p)
    \/ \E k \in MainKwargsArgs, c \in ColumnsArgs :
           \E i \in StdinFor(IsNone(k.year) \/ IsNone(k.month) \/ IsNone(k.day)) :
               CallMain(k, i, c)
    \/ \E a \in CliArgs, c \in ColumnsArgs :
           \E i \in StdinFor(~AnyGiven(a)) : CallCliMain(a, i, c)

Spec == Init /\ [][Next]_vars

(***************************************************************************)
(* A caller that repeats an export: it notes its first export with a plot  *)
(* date of its own, goes on constructing calculators, charting and         *)
(* exporting, and can hold a later export against the noted one.           *)
(***************************************************************************)
InitRepeat ==
    /\ now = ClockStart
    /\ calc = NoCalc
    /\ last = Idle
    /\ noted = BlankNote

NextRepeat ==
    \/ Tick
    \/ Release
    \/ \E d \in {PyInt(1), PyInt(MaxDays)},
          o \in {PyStr(sVertical), PyStr(sHorizontal)} :
           Construct(PyInt(MaxWidth), d, o)
    \/ \E b \in {Midnight(1990, 5, 15), Midnight(2025, 8, 7)},
          p \in {PyNone, PyDatetime(ClockStart), PyDatetime(Midnight(2026, 1, 1))} :
           CallGenerateChart(b, p)
    \/ \E b \in {Midnight(1990, 5, 15), Midnight(2025, 8, 7)},
          p \in {PyNone, PyDatetime(ClockStart), PyDatetime(Midnight(2026, 1, 1))},
          o \in {PyStr(sVertical), PyStr(sHorizontal)} :
           CallGenerateTimeseriesJson(b, p, o)

SpecRepeat == InitRepeat /\ [][NextRepeat]_vars

(***************************************************************************)
(* A caller that computes cycle values: birth dates at midnight and late   *)
(* in the day, target dates before, on and after each birth date, whole    *)
(* periods apart, and at both ends of the calendar.  It notes its first    *)
(* call and can hold a later call against it.                              *)
(***************************************************************************)
\* days from the birth date to the target dates offered
TargetOffsets ==
    {-(PHYSICAL_CYCLE_DAYS * EMOTIONAL_CYCLE_DAYS), -INTELLECTUAL_CYCLE_DAYS,
     -EMOTIONAL_CYCLE_DAYS, -PHYSICAL_CYCLE_DAYS, -7, -5, -1, 0, 1, 7, 18,
     PHYSICAL_CYCLE_DAYS, EMOTIONAL_CYCLE_DAYS, INTELLECTUAL_CYCLE_DAYS,
     PHYSICAL_CYCLE_DAYS * EMOTIONAL_CYCLE_DAYS}

ValueBirthdateArgs ==
    {Midnight(1990, 5, 15),
     [ord |-> YmdToOrd(2025, 8, 7), tick |-> TicksPerDay - 1]}

ValueTargetArgs ==
    {PlusDays(b, k) : b \in ValueBirthdateArgs, k \in TargetOffsets}
        \cup {[ord |-> b.ord + k, tick |-> 0] : b \in ValueBirthdateArgs, k \in {0, 1}}
        \cup {Midnight(MIN_YEAR, 1, 1), Midnight(MAX_YEAR, 12, 31)}

InitValues ==
    /\ now = ClockStart
    /\ calc = NoCalc
    /\ last = Idle
    /\ noted = BlankNote

NextValues ==
    \/ Release
    \/ Construct(PyInt(DEFAULT_CHART_WIDTH), PyInt(DEFAULT_DAYS_TO_PLOT),
                 PyStr(sVertical))
    \/ \E b \in ValueBirthdateArgs, t \in ValueTargetArgs :
           CallCalculateBiorhythmValues(b, t)

SpecValues == InitValues /\ [][NextValues]_vars

(***************************************************************************)
(* Properties                                                              *)
(***************************************************************************)
CycleNames == <<"Physical", "Emotional", "Intellectual">>

\* C1: is_critical_day returns exactly the names, among Physical, Emotional,
\* Intellectual and in that order, of the cycles whose value v has
\* abs(v) <= 0.05 (that is, 20 * abs(v) <= 1), each cycle judged on its own,
\* and is_critical is true iff that list is not empty.
C1_CriticalCyclesExact ==
    last.op = "is_critical_day" =>
        LET value == [Physical |-> last.physical, Emotional |-> last.emotional,
                      Intellectual |-> last.intellectual]
            Near(name) == 20 * Abs(value[name]) <= SCALE
            expected == SelectSeq(CycleNames, Near)
        IN /\ last.ret.critical_cycles = expected
           /\ last.ret.is_critical = (Len(expected) > 0)

\* C1 witness: a value at +0.05 and one at -0.05 are listed, one just above is not
C1_Witness ==
    /\ last.op = "is_critical_day"
    /\ last.physical = SCALE \div 20
    /\ last.emotional = (SCALE \div 20) + 1
    /\ last.intellectual = -(SCALE \div 20)
    /\ last.ret.critical_cycles = <<"Physical", "Intellectual">>
    /\ last.ret.is_critical

\* C2: for every effective width >= 12 and every cycle value in [-1, 1] the
\* column floor(value * (midwidth - 1)) + midwidth lies in 0 .. width-1, so
\* _create_chart_line raises no IndexError, wraps no negative index and
\* returns a line of exactly width characters.
C2_ColumnsInRange ==
    /\ last.op = "_calculate_chart_positions" =>
           \A k \in 1..3 : last.ret[k] >= 0 /\ last.ret[k] <= calc.width - 1
    /\ last.op = "_create_chart_line" =>
           /\ \A k \in 1..3 : last.pos[k] >= 0 /\ last.pos[k] <= calc.width - 1
           /\ last.exc = "none"
           /\ Len(last.line) = calc.width
    /\ (last.op = "__init__" /\ last.exc = "none") =>
           /\ calc.width >= 12
           /\ \A v \in (-SCALE)..SCALE :
                  /\ ChartPosition(v, calc.midwidth) >= 0
                  /\ ChartPosition(v, calc.midwidth) <= calc.width - 1

\* C2 witness: value +1 lands on the last column of an even-width chart while
\* value -1 stays inside the line
C2_Witness ==
    /\ last.op = "_create_chart_line"
    /\ last.physical = SCALE
    /\ last.emotional = -SCALE
    /\ last.pos[1] = calc.width - 1
    /\ last.pos[2] >= 0
    /\ last.exc = "none"

\* C3: a successfully constructed calculator has width = max(requested
\* width, 12), days = requested days >= 1, the lower-cased requested
\* orientation, which is 'vertical' or 'horizontal', midwidth = floor(width/2)
\* of the clamped width and middays = floor(days/2).
C3_ConstructedConfiguration ==
    /\ (last.op = "__init__" /\ last.exc = "none") =>
           /\ calc = last.self
           /\ calc.width = (IF last.width.v < 12 THEN 12 ELSE last.width.v)
           /\ calc.days = last.days.v
           /\ calc.orientation = Lower(last.orientation.v)
    /\ calc # NoCalc =>
           /\ calc.width >= 12
           /\ calc.days >= 1
           /\ calc.orientation \in {sVertical, sHorizontal}
           /\ 2 * calc.midwidth <= calc.width /\ calc.width <= 2 * calc.midwidth + 1
           /\ 2 * calc.middays <= calc.days /\ calc.days <= 2 * calc.middays + 1

\* C3 witness: a requested width of 5 was clamped to 12 and 'Horizontal' was
\* lower-cased
C3_Witness ==
    /\ last.op = "__init__"
    /\ last.exc = "none"
    /\ last.width.v = 5
    /\ last.orientation.v = <<"H","o","r","i","z","o","n","t","a","l">>
    /\ calc.width = 12
    /\ calc.midwidth = 6
    /\ calc.orientation = sHorizontal

\* the constructor's arguments are acceptable
GoodInitArgs(width, days, orientation) ==
    /\ width.t = "int" /\ width.v >= 1
    /\ days.t = "int" /\ days.v >= 1
    /\ orientation.t = "str"
    /\ Lower(orientation.v) \in {sVertical, sHorizontal}

ConfigFieldNames == {"width", "days", "orientation", "midwidth", "middays"}

\* C4 as stated: construction fails with ChartParameterError exactly when
\* width is no integer or < 1, days is no integer or < 1, or the orientation
\* is not 'vertical' or 'horizontal' in any letter case, and the error is
\* raised before any field of the calculator is set.
C4_Original ==
    last.op = "__init__" =>
        /\ last.exc \in {"none", "ChartParameterError"}
        /\ (last.exc = "ChartParameterError")
               <=> ~GoodInitArgs(last.width, last.days, last.orientation)
        /\ last.exc # "none" => DOMAIN last.self = {}

\* C4 (amended): construction fails with ChartParameterError exactly in those
\* cases, and the error is raised before any of width, days, orientation,
\* midwidth and middays is set; the logger attribute alone is assigned
\* before validation.
C4_FailsBeforeConfiguration ==
    last.op = "__init__" =>
        /\ last.exc \in {"none", "ChartParameterError"}
        /\ (last.exc = "ChartParameterError")
               <=> ~GoodInitArgs(last.width, last.days, last.orientation)
        /\ last.exc # "none" =>
               /\ DOMAIN last.self \cap ConfigFieldNames = {}
               /\ DOMAIN last.self = {"logger"}

\* C4 witness: days = 0 with a good width and orientation was rejected
C4_Witness ==
    /\ last.op = "__init__"
    /\ last.exc = "ChartParameterError"
    /\ last.width.t = "int" /\ last.width.v = 12
    /\ last.days.t = "int" /\ last.days.v = 0
    /\ last.orientation.t = "str" /\ last.orientation.v = sVertical

\* year, month, day name a real calendar date of years 1..9999
RealCalendarDate(year, month, day) ==
    /\ year.t = "int" /\ month.t = "int" /\ day.t = "int"
    /\ 1 <= year.v /\ year.v <= 9999
    /\ 1 <= month.v /\ month.v <= 12
    /\ 1 <= day.v /\ day.v <= 31
    /\ OrdToYmd(YmdToOrd(year.v, month.v, day.v)) = <<year.v, month.v, day.v>>

\* C5: create_validated_date returns the calendar date (year, month, day) iff
\* year is in 1..9999, month in 1..12, day in 1..31, the three name a real
\* calendar date and that date is not after the current moment (today's date
\* is accepted); in every other case it raises DateValidationError and
\* returns no date.
C5_ValidatedDate ==
    last.op = "create_validated_date" =>
        LET accepted ==
                /\ RealCalendarDate(last.year, last.month, last.day)
                /\ YmdToOrd(last.year.v, last.month.v, last.day.v) <= last.at.ord
        IN /\ accepted =>
                  /\ last.ret.exc = "none"
                  /\ OrdToYmd(last.ret.date.ord)
                         = <<last.year.v, last.month.v, last.day.v>>
                  /\ last.ret.date.tick = 0
           /\ ~accepted =>
                  /\ last.ret.exc = "DateValidationError"
                  /\ "date" \notin DOMAIN last.ret

\* C5 witness: today's date, validated at the first moment of today, is
\* accepted
C5_Witness ==
    /\ last.op = "create_validated_date"
    /\ last.at.tick = 0
    /\ RealCalendarDate(last.year, last.month, last.day)
    /\ YmdToOrd(last.year.v, last.month.v, last.day.v) = last.at.ord
    /\ last.ret.exc = "none"

\* the export call returned a payload
Exported == last.op = "generate_timeseries_json" /\ last.exc = "none"

\* the parts of the exported payload
Meta == last.ret.v.meta.v
Data == last.ret.v.data.v
CriticalDays == last.ret.v.critical_days.v

\* s has the form YYYY-MM-DD
IsIsoDate(s) ==
    /\ Len(s) = 10
    /\ s[5] = "-" /\ s[8] = "-"
    /\ \A k \in {1, 2, 3, 4, 6, 7, 9, 10} : IsDigit(s[k])

\* the ordinal of the calendar day a YYYY-MM-DD string names
DateOrdinal(s) ==
    YmdToOrd(CharsToNat(SubSeq(s, 1, 4)), CharsToNat(SubSeq(s, 6, 7)),
             CharsToNat(SubSeq(s, 9, 10)))

\* C6: the export holds exactly `days` records, one for each of the
\* consecutive calendar days plot_date - middays, ..., plot_date - middays +
\* days - 1 in increasing order, all dates distinct, the record at index
\* middays being the plot date; each record's days_alive is its own date minus
\* the birth date in whole days, record i having meta.days_alive - middays + i.
C6_WindowRecords ==
    Exported =>
        /\ Len(Data) = calc.days
        /\ \A i \in 0..(Len(Data) - 1) :
               /\ IsIsoDate(Data[i + 1].v.date.v)
               /\ DateOrdinal(Data[i + 1].v.date.v)
                      = last.plot_date.ord - (calc.days \div 2) + i
               /\ Data[i + 1].v.days_alive.v
                      = DateOrdinal(Data[i + 1].v.date.v) - last.birthdate.ord
               /\ Data[i + 1].v.days_alive.v
                      = Meta.days_alive.v - (calc.days \div 2) + i
        /\ \A i, k \in 1..Len(Data) :
               i # k => Data[i].v.date.v # Data[k].v.date.v
        /\ Data[(calc.days \div 2) + 1].v.date.v = Meta.plot_date.v
        /\ DateOrdinal(Meta.plot_date.v) = last.plot_date.ord

\* C6 witness: a three-day window around 2024-03-01 starts on the leap day
C6_Witness ==
    /\ Exported
    /\ calc.days = 3
    /\ Len(Data) = 3
    /\ Data[1].v.date.v = <<"2","0","2","4","-","0","2","-","2","9">>
    /\ Data[2].v.date.v = <<"2","0","2","4","-","0","3","-","0","1">>
    /\ Data[3].v.date.v = <<"2","0","2","4","-","0","3","-","0","2">>

\* C7: meta.days_alive is plot_date - birthdate in whole days, it is the
\* days_alive of the data record dated the plot date, and it is 0 when the
\* plot date is the birth date.
C7_MetaDaysAlive ==
    Exported =>
        /\ Meta.days_alive.t = "int"
        /\ Meta.days_alive.v = last.plot_date.ord - last.birthdate.ord
        /\ \E i \in 1..Len(Data) : Data[i].v.date.v = Meta.plot_date.v
        /\ \A i \in 1..Len(Data) :
               Data[i].v.date.v = Meta.plot_date.v
                   => Data[i].v.days_alive.v = Meta.days_alive.v
        /\ Meta.plot_date.v = Meta.birthdate.v => Meta.days_alive.v = 0

\* C7 witness: an export plotted on the birth date, later that day
C7_Witness ==
    /\ Exported
    /\ last.plot_date.ord = last.birthdate.ord
    /\ last.plot_date.tick > 0
    /\ Meta.days_alive.v = 0
    /\ calc.days > 1

\* C8: critical_days is exactly the sub-sequence of the data records whose
\* critical_cycles is not empty: same dates, same order, the same cycles; a
\* record with no critical cycle is not in it.
C8_CriticalDaysSummary ==
    Exported =>
        LET HasCritical(e) == Len(e.v.critical_cycles.v) > 0
            critical == SelectSeq(Data, HasCritical)
        IN /\ Len(CriticalDays) = Len(critical)
           /\ \A i \in 1..Len(critical) :
                  /\ DOMAIN CriticalDays[i].v = {"date", "cycles"}
                  /\ CriticalDays[i].v.date = critical[i].v.date
                  /\ CriticalDays[i].v.cycles = critical[i].v.critical_cycles

\* C8 witness: a window with one critical day (one cycle near zero) among
\* days that are not critical
C8_Witness ==
    /\ Exported
    /\ Len(Data) = 3
    /\ Len(CriticalDays) = 1
    /\ Len(CriticalDays[1].v.cycles.v) = 1
    /\ CriticalDays[1].v.date = Data[2].v.date

MetaKeys ==
    {"generator", "version", "birthdate", "plot_date", "days_alive",
     "cycle_lengths_days", "chart_orientation", "days", "width",
     "scientific_warning"}

RecordKeys ==
    {"date", "days_alive", "physical", "emotional", "intellectual",
     "critical_cycles"}

\* C9: the meta of every exported payload has the keys generator, version,
\* birthdate, plot_date, days_alive, cycle_lengths_days (physical = 23,
\* emotional = 28, intellectual = 33), chart_orientation, days, width and
\* scientific_warning, and every data record has the six keys date,
\* days_alive, physical, emotional, intellectual, critical_cycles.
C9_PayloadKeys ==
    Exported =>
        /\ MetaKeys \subseteq DOMAIN Meta
        /\ Meta.cycle_lengths_days.v
               = [physical |-> PyInt(23), emotional |-> PyInt(28),
                  intellectual |-> PyInt(33)]
        /\ \A i \in 1..Len(Data) : RecordKeys \subseteq DOMAIN Data[i].v

RECURSIVE JsonTyped(_)
\* x is a string, an integer, a finite real, a boolean, or a list or
\* string-keyed mapping of such values
JsonTyped(x) ==
    CASE x.t \in {"str", "int", "bool"} -> TRUE
      [] x.t = "float" -> x.v >= -SCALE /\ x.v <= SCALE
      [] x.t = "list" -> \A k \in DOMAIN x.v : JsonTyped(x.v[k])
      [] x.t = "dict" ->
             /\ DOMAIN x.v \subseteq STRING
             /\ \A k \in DOMAIN x.v : JsonTyped(x.v[k])
      [] OTHER -> FALSE

\* C10: every value of an exported payload is a string, an integer, a finite
\* real, a boolean, or a list or string-keyed mapping of such values, dates
\* being YYYY-MM-DD strings, and serialising the payload to JSON and parsing
\* it back gives a payload equal to the original.
C10_JsonRoundTrip ==
    Exported =>
        /\ JsonTyped(last.ret)
        /\ IsIsoDate(Meta.birthdate.v) /\ IsIsoDate(Meta.plot_date.v)
        /\ \A i \in 1..Len(Data) :
               Data[i].v.date.t = "str" /\ IsIsoDate(Data[i].v.date.v)
        /\ \A i \in 1..Len(CriticalDays) :
               CriticalDays[i].v.date.t = "str" /\ IsIsoDate(CriticalDays[i].v.date.v)
        /\ JsonDumps(last.ret).exc = "none"
        /\ PyEq(JsonLoads(JsonDumps(last.ret).doc), last.ret)

\* C10 witness: a payload with negative integers, negative reals, a critical
\* day and a record without critical cycles went through the round trip
C10_Witness ==
    /\ Exported
    /\ Meta.days_alive.v < 0
    /\ Len(CriticalDays) > 0
    /\ \E i \in 1..Len(Data) :
           /\ Data[i].v.physical.v < 0
           /\ Len(Data[i].v.critical_cycles.v) = 0
    /\ JsonDumps(last.ret).exc = "none"
    /\ JsonLoads(JsonDumps(last.ret).doc).v.meta.v.days_alive = Meta.days_alive

(***************************************************************************)
(* The printed chart, the engine's main and the command-line entry         *)
(***************************************************************************)
Charted == last.op = "generate_chart"

\* the two "repeat" lines of a printed header
HeaderRepeatLines(out) == <<out[16], out[17]>>

\* the two lines as they read for the figures pe and all
RepeatLines(pe, all) ==
    <<Text("Cycle Info: Physical+Emotional repeat in " \o ToString(pe) \o " days"),
      Text("           All cycles repeat in " \o ToString(all) \o " days")>>

\* C11: for the same birth date and plot date the chart header and the
\* cycle_repeats of an export report the same two figures,
\* 644 - (days_alive mod 644) and 21252 - (days_alive mod 21252), with
\* days_alive = plot_date - birthdate in whole days.
C11_RepeatFiguresAgree ==
    LET days_alive == last.plot_date.ord - last.birthdate.ord
        pe == 644 - (days_alive % 644)
        all == 21252 - (days_alive % 21252)
    IN /\ Charted =>
              /\ Len(last.out) >= 17
              /\ HeaderRepeatLines(last.out) = RepeatLines(pe, all)
              /\ ExportCycleRepeats(last.birthdate, last.plot_date)
                     = PyDict([physical_emotional_repeat_in_days |-> PyInt(pe),
                               all_cycles_repeat_in_days |-> PyInt(all)])
       /\ Exported =>
              /\ last.ret.v.cycle_repeats.v.physical_emotional_repeat_in_days
                     = PyInt(pe)
              /\ last.ret.v.cycle_repeats.v.all_cycles_repeat_in_days = PyInt(all)
              /\ HeaderRepeatLines(PrintChartHeader(calc, last.birthdate,
                                       last.plot_date, days_alive))
                     = RepeatLines(pe, all)

\* C11 witness: a chart plotted on the birth date, where a whole period (644
\* and 21252 days) is still to come
C11_Witness ==
    /\ Charted
    /\ last.plot_date.ord = last.birthdate.ord
    /\ HeaderRepeatLines(last.out) = RepeatLines(644, 21252)

\* C12: in a vertical chart line a column where two or three cycles coincide
\* shows '*' on a non-critical day and '!' on a critical day, and a cycle
\* whose column no other cycle shares shows its own letter (p/e/i, or P/E/I
\* on a critical day).
C12_VerticalOverlap ==
    (last.op = "_create_chart_line" /\ last.exc = "none") =>
        \A k \in 1..3 :
            LET shared == \E j \in (1..3) \ {k} : last.pos[j] = last.pos[k]
                shown == last.line[last.pos[k] + 1]
            IN shown = IF shared
                       THEN (IF last.is_critical THEN "!" ELSE "*")
                       ELSE (IF last.is_critical THEN Upper(CycleSymbols)[k]
                             ELSE CycleSymbols[k])

\* C12 witness: physical and intellectual share a column on a non-critical
\* day and the emotional cycle stands alone
C12_Witness ==
    /\ last.op = "_create_chart_line"
    /\ last.exc = "none"
    /\ ~last.is_critical
    /\ last.pos[1] = last.pos[3]
    /\ last.pos[2] # last.pos[1]
    /\ last.line[last.pos[1] + 1] = "*"
    /\ last.line[last.pos[2] + 1] = "e"

\* a horizontal chart was printed to the end
ChartedHorizontal ==
    Charted /\ last.exc = "none" /\ calc.orientation = sHorizontal

\* the cycles whose curve passes through row r, column c (both from 1) of the
\* matrix of the chart in `last`
CyclesAt(r, c) ==
    LET date == PlusDays(last.plot_date, c - 1 - (calc.width \div 2))
        days_alive == TimedeltaDays(date, last.birthdate)
    IN {idx \in DOMAIN CyclePeriods :
            WaveRow(SinCycle(days_alive, CyclePeriods[idx])) = r - 1}

\* C13: after the three cycles are overlaid in the combined horizontal matrix
\* (before the plot date is emphasised) a cell is blank iff no cycle maps to
\* it, shows the letter of a cycle iff that cycle alone maps to it, '*' iff
\* exactly two cycles map to it and '!' iff all three do.
C13_HorizontalOverlay ==
    ChartedHorizontal =>
        /\ Len(last.overlaid) = chart_height
        /\ \A r \in 1..chart_height :
               /\ Len(last.overlaid[r]) = calc.width
               /\ \A c \in 1..calc.width :
                      LET cycles == CyclesAt(r, c)
                          cell == last.overlaid[r][c]
                      IN /\ cell = " " <=> cycles = {}
                         /\ \A idx \in DOMAIN CycleSymbols :
                                cell = CycleSymbols[idx] <=> cycles = {idx}
                         /\ cell = "*" <=> Cardinality(cycles) = 2
                         /\ cell = "!" <=> Cardinality(cycles) = 3

\* C13 witness: a matrix with a cell where all three cycles meet, a cell
\* where two meet, a cell of one cycle and a blank cell
C13_Witness ==
    /\ ChartedHorizontal
    /\ \E r \in 1..chart_height, c \in 1..calc.width :
           last.overlaid[r][c] = "!" /\ Cardinality(CyclesAt(r, c)) = 3
    /\ \E r \in 1..chart_height, c \in 1..calc.width :
           last.overlaid[r][c] = "*" /\ Cardinality(CyclesAt(r, c)) = 2
    /\ \E r \in 1..chart_height, c \in 1..calc.width :
           last.overlaid[r][c] = "e" /\ CyclesAt(r, c) = {2}
    /\ \E r \in 1..chart_height, c \in 1..calc.width :
           last.overlaid[r][c] = " "

\* C14: chart generation is all-or-nothing: when generate_chart fails, the
\* failure is one BiorhythmError wrapping the cause and no part of the chart
\* (header, title, chart lines, footer) has been printed.
C14_AllOrNothing ==
    (Charted /\ last.exc # "none") =>
        /\ last.exc = "BiorhythmError"
        /\ last.cause # "none"
        /\ last.out = <<>>

\* the export in `last` repeats the noted one: the same configuration, birth
\* date, plot date (given, not defaulted) and chart orientation
RepeatsNoted ==
    /\ last.op = "generate_timeseries_json"
    /\ last.explicit
    /\ noted.t = "export"
    /\ calc = noted.self
    /\ last.birthdate = noted.birthdate
    /\ last.plot_date = noted.plot_date
    /\ last.chart_orientation = noted.chart_orientation

\* a chart or export call is made in this step
ChartOrExportCall ==
    /\ last = Idle
    /\ last'.op \in {"generate_chart", "generate_timeseries_json"}

\* C15: the engine is stateless and deterministic: for the same
\* configuration, birth date and explicitly given plot date an export returns
\* a payload equal to the one returned before, whatever constructions, charts
\* and exports were made in between and whatever the clock reads, and no
\* chart or export call changes the calculator's width, days, orientation,
\* midwidth or middays.
C15_StatelessExport ==
    /\ [](RepeatsNoted =>
              /\ last.exc = noted.exc
              /\ last.exc = "none" => PyEq(last.ret, noted.ret))
    /\ [][ChartOrExportCall =>
              /\ calc' = calc
              /\ \A f \in ConfigFieldNames : calc'[f] = calc[f]]_vars

\* C15 witness: the noted export is repeated at a later reading of the clock,
\* on the next day, and returns the noted payload
C15_Witness ==
    /\ RepeatsNoted
    /\ last.exc = "none"
    /\ last.at.ord > noted.at.ord
    /\ PyEq(last.ret, noted.ret)

\* the engine's main was called with year, month, day and days
MainCalledWithDays ==
    /\ last.op = "main"
    /\ {"year", "month", "day", "days"} \subseteq last.kwargs.given

\* C16: called with year, month, day and a days argument, the engine's main
\* validates the birth date, constructs the calculator with exactly that
\* days value and the requested orientation, and then calls generate_chart
\* with the validated birth date.
C16_MainPassesDays ==
    MainCalledWithDays =>
        /\ last.exc = "none"
        /\ last.validated.called
        /\ last.validated.year = last.kwargs.year
        /\ last.validated.month = last.kwargs.month
        /\ last.validated.day = last.kwargs.day
        /\ last.validated.exc = "none" =>
               /\ last.constructed.called
               /\ last.constructed.days = last.kwargs.days
               /\ last.constructed.orientation = last.kwargs.orientation
               /\ last.constructed.exc = "none" =>
                      /\ last.charted.called
                      /\ last.charted.birthdate
                             = PyDatetime(Midnight(last.kwargs.year.v,
                                                   last.kwargs.month.v,
                                                   last.kwargs.day.v))

\* an export plotted at the current date (no plot date given) for a birth
\* date that is not in the future
ExportedToday ==
    /\ Exported
    /\ ~last.explicit
    /\ ~DatetimeAfter(last.birthdate, last.plot_date)

\* C17 as stated: in an export for a birth date that is not in the future,
\* plotted at the current date, every data record has days_alive >= 0.
C17_Original ==
    ExportedToday => \A i \in 1..Len(Data) : Data[i].v.days_alive.v >= 0

\* C17: in an export for a birth date that is not in the future, plotted at
\* the current date, the records count days_alive up from
\* (plot_date - birthdate).days - days // 2, so every record has
\* days_alive >= 0 exactly when the birth date lies at least days // 2 whole
\* days before the plot date; records dated before the birth date have
\* negative days_alive.
C17_NonNegativeFromBirth ==
    ExportedToday =>
        /\ \A i \in 1..Len(Data) :
               Data[i].v.days_alive.v
                   = TimedeltaDays(last.plot_date, last.birthdate) - calc.middays + i - 1
        /\ (\A i \in 1..Len(Data) : Data[i].v.days_alive.v >= 0)
               <=> TimedeltaDays(last.plot_date, last.birthdate) >= calc.middays

\* C17 witness: an export on the day after the birth date whose window
\* starts on the birth date, so that its first record has days_alive = 0
C17_Witness ==
    /\ ExportedToday
    /\ calc.middays = 1
    /\ Len(Data) = 3
    /\ TimedeltaDays(last.plot_date, last.birthdate) = 1
    /\ Data[1].v.days_alive.v = 0

\* the orientations the engine recognizes, as it compares them (lower-cased)
Recognized(orientation) ==
    IsInstanceStr(orientation) /\ Lower(orientation.v) \in {sVertical, sHorizontal}

\* C18: the orientation recorded in the meta of an exported payload is always
\* 'vertical' or 'horizontal': an unrecognized orientation given to the
\* constructor or to the export call is rejected as a configuration error,
\* never coerced or passed through to the output.
C18_MetaOrientationRecognized ==
    /\ (last.op = "__init__" /\ ~Recognized(last.orientation)) =>
           last.exc = "ChartParameterError"
    /\ (last.op = "generate_timeseries_json" /\ ~Recognized(last.chart_orientation)) =>
           last.exc = "ChartParameterError"
    /\ Exported => Meta.chart_orientation.v \in {sVertical, sHorizontal}

\* the engine's main ran and the birth date it was given failed validation
MainDateRejected ==
    /\ last.op = "main"
    /\ last.validated.called
    /\ last.validated.exc # "none"

\* the validated components are a calendar date after the clock reading `at`
FutureDate(v, at) ==
    /\ RealCalendarDate(v.year, v.month, v.day)
    /\ DatetimeAfter(Midnight(v.year.v, v.month.v, v.day.v), at)

\* C19: when the birth date given to the engine's main fails validation (a
\* future date, a month or day out of range), main prints 'Error: <reason>'
\* as its last line and exits with a non-zero status, and in that run no
\* calculator is constructed and no chart is generated or printed.
C19_MainRejectsInvalidDate ==
    MainDateRejected =>
        /\ last.exc = "none"
        /\ last.exit = "1"
        /\ last.out[Len(last.out)]
               = Text("Error: " \o DateValidationMessage(last.validated.year,
                                      last.validated.month, last.validated.day,
                                      last.at))
        /\ FutureDate(last.validated, last.at) =>
               last.out[Len(last.out)]
                   = Text("Error: Birth date cannot be in the future")
        /\ ~last.constructed.called
        /\ ~last.charted.called
        /\ \A k \in 1..Len(last.out) : last.out[k] # Text(HeaderRule)

\* C19 witness: main called with a birth date two days ahead of the clock
C19_Witness ==
    /\ MainDateRejected
    /\ "year" \in last.kwargs.given
    /\ FutureDate(last.validated, last.at)
    /\ last.exit = "1"
    /\ last.out[Len(last.out)] = Text("Error: Birth date cannot be in the future")

\* the date options given on the command line of the run in `last`
DateOptionsGiven ==
    {n \in {"year", "month", "day"} : ~IsNone(last.args[n])}

\* C20: main.py calls the engine's main with year, month, day, orientation
\* and days exactly when all three date components were given on the command
\* line; when none was given it calls it with no arguments; when only some
\* were given it prints the 'all date components must be provided' error and
\* exits with status 1 without calling the engine.
C20_CliDispatch ==
    last.op = "main.py" =>
        /\ DateOptionsGiven = {"year", "month", "day"} =>
               /\ last.engine_call.called
               /\ last.engine_call.kwargs
                      = Kwargs({"year", "month", "day", "orientation", "days"},
                               last.args.year, last.args.month, last.args.day,
                               last.args.orientation, last.args.days)
        /\ DateOptionsGiven = {} =>
               /\ last.engine_call.called
               /\ last.engine_call.kwargs = NoKwargs
        /\ DateOptionsGiven \notin {{}, {"year", "month", "day"}} =>
               /\ ~last.engine_call.called
               /\ last.out = <<Text("Error: When using command line arguments, all date components (--year, --month, --day) must be provided")>>
               /\ last.exit = "1"

(***************************************************************************)
(* Cycle values (calculate_biorhythm_values)                               *)
(***************************************************************************)
Valued == last.op = "calculate_biorhythm_values"

CycleFields == <<"physical", "emotional", "intellectual">>

\* (target_date - birthdate).days of a call, or of the noted one
DaysAliveOf(call) == TimedeltaDays(call.target_date, call.birthdate)

\* C21: for every birth date and target date, target dates before the birth
\* date included, each of the three values returned by
\* calculate_biorhythm_values lies in [-1.0, 1.0].
C21_ValuesInRange ==
    Valued =>
        \A k \in DOMAIN CycleFields :
            /\ last.ret[CycleFields[k]] >= -SCALE
            /\ last.ret[CycleFields[k]] <= SCALE

\* a call for a target date before the birth date whose emotional value is
\* the lower end of the range
C21_Witness ==
    /\ Valued
    /\ DaysAliveOf(last) < 0
    /\ last.ret.emotional = -SCALE

\* C22: each cycle is periodic in its own period: the value of the cycle with
\* period P at target_date + P days equals its value at target_date, and two
\* calls whose days_alive agree modulo P return the same value of that cycle,
\* also for negative days_alive.
C22_Periodic ==
    (Valued /\ noted.t = "values") =>
        \A k \in DOMAIN CyclePeriods :
            LET P == CyclePeriods[k]
                f == CycleFields[k]
            IN /\ (/\ last.birthdate = noted.birthdate
                   /\ last.target_date = PlusDays(noted.target_date, P))
                      => last.ret[f] = noted.ret[f]
               /\ (DaysAliveOf(last) % P = DaysAliveOf(noted) % P)
                      => last.ret[f] = noted.ret[f]

\* a call one physical period after a noted call for a day before the birth
\* date, the two on either side of the birth date
C22_Witness ==
    /\ Valued
    /\ noted.t = "values"
    /\ last.birthdate = noted.birthdate
    /\ last.target_date = PlusDays(noted.target_date, PHYSICAL_CYCLE_DAYS)
    /\ DaysAliveOf(noted) < 0
    /\ DaysAliveOf(last) > 0
    /\ last.ret.physical # 0

\* C23: when the target date is the birth date (days_alive = 0) the three
\* values are exactly 0.0, and the day is classified critical for Physical,
\* Emotional and Intellectual.
C23_BirthDateZero ==
    (Valued /\ DaysAliveOf(last) = 0) =>
        /\ \A k \in DOMAIN CycleFields : last.ret[CycleFields[k]] = 0
        /\ IsCriticalDay(last.ret.physical, last.ret.emotional,
                         last.ret.intellectual)
               = [is_critical |-> TRUE, critical_cycles |-> CycleNames]

\* a call whose target date is the birth date, time of day included
C23_Witness ==
    /\ Valued
    /\ last.target_date = last.birthdate
    /\ last.birthdate.tick > 0

(***************************************************************************)
(* The vertical chart and the export side by side                          *)
(***************************************************************************)
\* a vertical chart was printed to the end
ChartedVertical ==
    Charted /\ last.exc = "none" /\ calc.orientation = sVertical

\* the lines printed before the first chart line: the header and the title
ChartLead == 20

\* the chart line of the k-th day of the window (k from 1)
ChartLine(k) == last.out[ChartLead + k]

\* the footer of a vertical chart: what follows the percentages line, up to
\* the closing reminder
ChartFooter == SubSeq(last.out, ChartLead + calc.days + 2, Len(last.out) - 2)

\* the calendar day a YYYY-MM-DD string names, as the chart prints it
ShortDateOf(s) == StrftimeShort([ord |-> DateOrdinal(s), tick |-> 0])

\* the vertical chart in `last` was drawn for the birth date, plot date and
\* days of the noted export
ChartedAsNoted ==
    /\ ChartedVertical
    /\ noted.t = "export"
    /\ noted.exc = "none"
    /\ noted.birthdate = last.birthdate
    /\ noted.plot_date = last.plot_date
    /\ noted.self.days = calc.days

\* C24: for the same birth date, plot date and days the vertical chart and
\* the export cover the same window: the days of the chart lines are the
\* dates of the data records in the same order, the critical days listed in
\* the chart footer are the entries of the critical_days summary (same days,
\* same order, same cycle names), and the "no critical days" notice is
\* printed iff the summary is empty.
C24_ChartMatchesExport ==
    ChartedAsNoted =>
        LET data == noted.ret.v.data.v
            summary == noted.ret.v.critical_days.v
            Names(item) == [j \in DOMAIN item.v.cycles.v |-> item.v.cycles.v[j].v]
        IN /\ Len(data) = calc.days
           /\ Len(last.out) = ChartLead + calc.days + 5 + Len(summary)
           /\ \A k \in 1..calc.days :
                  ChartLine(k).text = ShortDateOf(data[k].v.date.v)
           /\ ChartFooter[1] = Text("")
           /\ IF Len(summary) = 0
              THEN ChartFooter
                       = <<Text(""),
                           Text(INFO_SIGN \o "  No critical days in the displayed period.")>>
              ELSE /\ Len(ChartFooter) = 2 + Len(summary)
                   /\ ChartFooter[2]
                          = Text(WARNING_SIGN \o "  CRITICAL DAYS detected in chart period:")
                   /\ \A i \in 1..Len(summary) :
                          ChartFooter[2 + i]
                              = Text("   " \o ShortDateOf(summary[i].v.date.v) \o ": "
                                         \o JoinComma(Names(summary[i]))
                                         \o " cycle(s) near zero")

\* a three-day chart around the birth date held against the noted export of
\* the same window, whose summary names the birth date with its three cycles
C24_Witness ==
    /\ ChartedAsNoted
    /\ calc.days = MaxDays
    /\ Len(noted.ret.v.critical_days.v) = 1
    /\ Len(noted.ret.v.critical_days.v[1].v.cycles.v) = 3
    /\ ChartLine(2).text = ShortDateOf(noted.ret.v.critical_days.v[1].v.date.v)

(***************************************************************************)
(* The lines of the vertical chart                                         *)
(***************************************************************************)
\* the calendar day of the k-th chart line (k from 1) of the chart in `last`
ChartDay(k) == PlusDays(last.plot_date, k - 1 - (calc.days \div 2))

\* the day of the k-th chart line has a value within the critical threshold
ChartDayCritical(k) ==
    LET values == CalculateBiorhythmValues(last.birthdate, ChartDay(k))
    IN \E j \in DOMAIN CycleFields :
           Abs(values[CycleFields[j]]) <= CRITICAL_DAY_THRESHOLD

\* what a chart line shows besides its background
ChartMarks == {"p", "e", "i", "P", "E", "I", "*", "!", ":"}

\* the background characters of the k-th chart line
Background(k) ==
    {ChartLine(k).cells[c] : c \in DOMAIN ChartLine(k).cells} \ ChartMarks

\* C25: in every vertical chart exactly one chart line is drawn as the
\* plot-date line, the line at index middays = floor(days/2) of the window;
\* it has the '-' background even when its day is critical, every other line
\* has '.' iff its day is critical and a space otherwise, and the footer
\* percentages are those of the day of that line.
C25_PlotDateLine ==
    ChartedVertical =>
        /\ \A k \in 1..calc.days :
               Background(k) =
                   IF k = (calc.days \div 2) + 1 THEN {"-"}
                   ELSE IF ChartDayCritical(k) THEN {"."}
                   ELSE {" "}
        /\ ChartDay((calc.days \div 2) + 1) = last.plot_date
        /\ LET values == CalculateBiorhythmValues(last.birthdate,
                             ChartDay((calc.days \div 2) + 1))
           IN last.out[ChartLead + calc.days + 1].tail
                  = "p:" \o FormatPercent(values.physical)
                        \o "% e:" \o FormatPercent(values.emotional)
                        \o "% i:" \o FormatPercent(values.intellectual) \o "%"

\* a three-day chart whose plot date is a critical day between two days that
\* are not: its middle line is marked critical and has the '-' background
C25_Witness ==
    /\ ChartedVertical
    /\ calc.days = MaxDays
    /\ ChartDayCritical(2)
    /\ ~ChartDayCritical(1)
    /\ ChartLine(2).tail # ""
    /\ Background(2) = {"-"}
    /\ Background(1) = {" "}

\* the characters of the k-th chart line
ChartCells(k) == {ChartLine(k).cells[c] : c \in DOMAIN ChartLine(k).cells}

\* C26: every vertical chart line is exactly `width` characters long, and the
\* cycle letters on it are uppercase (P/E/I) iff at least one of the day's
\* three values has absolute value <= 0.05 and lowercase (p/e/i) otherwise,
\* on every line of the window, the plot-date line included.
C26_LineWidthAndCase ==
    ChartedVertical =>
        \A k \in 1..calc.days :
            /\ Len(ChartLine(k).cells) = calc.width
            /\ ChartCells(k) \cap {"P", "E", "I"} # {} => ChartDayCritical(k)
            /\ ChartCells(k) \cap {"p", "e", "i"} # {} => ~ChartDayCritical(k)

\* a chart whose plot date is critical for one cycle alone: the plot-date
\* line is `width` long and carries uppercase letters on its '-' background
C26_Witness ==
    /\ ChartedVertical
    /\ ChartDayCritical((calc.days \div 2) + 1)
    /\ Len(ChartLine((calc.days \div 2) + 1).cells) = calc.width
    /\ {"P", "I", "-"} \subseteq ChartCells((calc.days \div 2) + 1)

(***************************************************************************)
(* The position mapper at the boundary values                              *)
(***************************************************************************)
Mapped == last.op = "_calculate_chart_positions"

\* the three values handed to the mapper, in the order of the columns returned
MappedValues == <<last.physical, last.emotional, last.intellectual>>

\* C27 as stated: value -1 maps to column 0 and value +1 maps to column
\* width-1, for odd and even widths >= 12.
C27_Original ==
    Mapped =>
        \A k \in 1..3 :
            /\ MappedValues[k] = -SCALE => last.ret[k] = 0
            /\ MappedValues[k] = SCALE => last.ret[k] = calc.width - 1

\* C27 amended: value -1 maps to column 1 and value +1 maps to column
\* 2*floor(width/2) - 1, which is width-1 for an even width and width-2 for an
\* odd width; column 0 is left free.
C27_BoundaryColumns ==
    Mapped =>
        \A k \in 1..3 :
            /\ MappedValues[k] = -SCALE => last.ret[k] = 1
            /\ MappedValues[k] = SCALE =>
                   last.ret[k] = IF calc.width % 2 = 0 THEN calc.width - 1
                                 ELSE calc.width - 2
            /\ last.ret[k] # 0

\* the mapper called with -1 and +1 on a chart of odd width
C27_Witness ==
    /\ Mapped
    /\ calc.width % 2 = 1
    /\ last.physical = -SCALE
    /\ last.emotional = SCALE
    /\ last.ret[1] = 1
    /\ last.ret[2] = calc.width - 2

(***************************************************************************)
(* The combined horizontal matrix as printed                               *)
(***************************************************************************)
\* the lines printed before the first matrix row: the header and one heading,
\* where the vertical chart prints two title lines
MatrixLead == ChartLead - 1

\* the cell at row r, column c (both from 1) of the printed matrix
MatrixCell(r, c) == last.out[MatrixLead + r].cells[c]

\* C28: in the combined horizontal matrix the column width//2 is the column
\* of the plot date (column c, from 0, shows the day plot_date - width//2 + c,
\* whatever `days` is); every single-cycle letter in that column is
\* uppercase, '*' and '!' cells in it are unchanged, and no uppercase letter
\* appears in any other column.
C28_PlotDateColumn ==
    ChartedHorizontal =>
        \A r \in 1..chart_height :
            /\ Len(last.out[MatrixLead + r].cells) = calc.width
            /\ \A c \in 1..calc.width :
                   LET cycles == CyclesAt(r, c)
                       cell == MatrixCell(r, c)
                       plot_column == c - 1 = calc.width \div 2
                   IN /\ cycles = {} => cell = " "
                      /\ Cardinality(cycles) = 2 => cell = "*"
                      /\ Cardinality(cycles) = 3 => cell = "!"
                      /\ \A idx \in DOMAIN CycleSymbols :
                             cycles = {idx} =>
                                 cell = IF plot_column
                                        THEN Upper(CycleSymbols)[idx]
                                        ELSE CycleSymbols[idx]
                      /\ cell = last.overlaid[r][c]
                             \/ (plot_column /\ cell = UpperChar(last.overlaid[r][c]))

\* a horizontal chart on a calculator of more days than one whose plot-date
\* column shows the three cycles apart, each in uppercase, and lowercase
\* letters in the column before it
C28_Witness ==
    /\ ChartedHorizontal
    /\ calc.days > 1
    /\ {MatrixCell(r, (calc.width \div 2) + 1) : r \in 1..chart_height}
           = {" ", "P", "E", "I"}
    /\ {MatrixCell(r, calc.width \div 2) : r \in 1..chart_height}
           = {" ", "p", "e", "i"}

\* the rows of column c where the printed matrix shows one of `marks`
RowsShowing(c, marks) == {r \in 1..chart_height : MatrixCell(r, c) \in marks}

\* the cycles the cells of column c account for: a letter counts 1, '*' 2
\* and '!' 3
CyclesShown(c) ==
    Cardinality(RowsShowing(c, {"p", "e", "i", "P", "E", "I"}))
        + 2 * Cardinality(RowsShowing(c, {"*"}))
        + 3 * Cardinality(RowsShowing(c, {"!"}))

\* C29: in the combined horizontal matrix each of the three cycles is drawn
\* in every one of the `width` day columns at a row in [0, 19] (value +1 at
\* row 0, value -1 at row 19): in every column the non-blank cells, a letter
\* counting 1, '*' 2 and '!' 3, account for exactly three cycles, and nothing
\* is written outside the 20 x width grid.
C29_ThreeCyclesPerColumn ==
    /\ WaveRow(SCALE) = 0
    /\ WaveRow(-SCALE) = chart_height - 1
    /\ ChartedHorizontal =>
           /\ Len(last.out) = MatrixLead + chart_height + 6
           /\ \A r \in 1..chart_height :
                  Len(last.out[MatrixLead + r].cells) = calc.width
           /\ \A c \in 1..calc.width :
                  /\ CyclesShown(c) = 3
                  /\ \A idx \in DOMAIN CyclePeriods :
                         \E r \in 1..chart_height :
                             idx \in CyclesAt(r, c) /\ MatrixCell(r, c) # " "
                  /\ \A r \in 1..chart_height :
                         MatrixCell(r, c) \in
                             {" ", "p", "e", "i", "P", "E", "I", "*", "!"}

\* a printed matrix with a column where the three cycles share one cell, a
\* column where two share a cell, and a column with a cycle in the top row
C29_Witness ==
    /\ ChartedHorizontal
    /\ \E c \in 1..calc.width : Cardinality(RowsShowing(c, {"!"})) = 1
    /\ \E c \in 1..calc.width :
           /\ Cardinality(RowsShowing(c, {"*"})) = 1
           /\ Cardinality(RowsShowing(c, {"p", "e", "i"})) = 1
    /\ \E c \in 1..calc.width : MatrixCell(1, c) # " "

(***************************************************************************)
(* The repeat figures                                                      *)
(***************************************************************************)
\* the periods after which two and three cycles are back in step
PhysicalEmotionalPeriod == PHYSICAL_CYCLE_DAYS * EMOTIONAL_CYCLE_DAYS
AllCyclesPeriod == PhysicalEmotionalPeriod * INTELLECTUAL_CYCLE_DAYS

\* r is a repeat figure for days_alive and period P
IsRepeatFigure(r, days_alive, P) ==
    /\ 1 <= r
    /\ r <= P
    /\ (days_alive + r) % P = 0
    /\ days_alive % P = 0 => r = P

\* the least r >= 1 that brings days_alive + r to a multiple of P
DaysToMultiple(days_alive, P) ==
    IF (-days_alive) % P = 0 THEN P ELSE (-days_alive) % P

\* C30: for every days_alive, negative ones included, each reported repeat
\* figure r for P = 644 or 21252 satisfies 1 <= r <= P and
\* (days_alive + r) mod P = 0, so that r days after the plot date days_alive
\* is a common multiple of the periods involved (23 and 28; 23, 28 and 33);
\* when days_alive is a multiple of P the figure is P, never 0.
C30_RepeatFigureBounds ==
    LET days_alive == TimedeltaDays(last.plot_date, last.birthdate)
    IN /\ PhysicalEmotionalPeriod = 644
       /\ AllCyclesPeriod = 21252
       /\ Exported =>
              LET pe == last.ret.v.cycle_repeats.v.physical_emotional_repeat_in_days.v
                  all == last.ret.v.cycle_repeats.v.all_cycles_repeat_in_days.v
              IN /\ IsRepeatFigure(pe, days_alive, PhysicalEmotionalPeriod)
                 /\ IsRepeatFigure(all, days_alive, AllCyclesPeriod)
                 /\ \A k \in 1..2 : (days_alive + pe) % CyclePeriods[k] = 0
                 /\ \A k \in 1..3 : (days_alive + all) % CyclePeriods[k] = 0
       /\ Charted =>
              HeaderRepeatLines(last.out)
                  = RepeatLines(DaysToMultiple(days_alive, PhysicalEmotionalPeriod),
                                DaysToMultiple(days_alive, AllCyclesPeriod))

\* an export for a plot date before the birth date: the figures are the days
\* left until the birth date
C30_Witness ==
    /\ Exported
    /\ TimedeltaDays(last.plot_date, last.birthdate) < 0
    /\ last.ret.v.cycle_repeats.v.physical_emotional_repeat_in_days.v
           = -TimedeltaDays(last.plot_date, last.birthdate)
    /\ last.ret.v.cycle_repeats.v.all_cycles_repeat_in_days.v
           = -TimedeltaDays(last.plot_date, last.birthdate)

====
